---------------------------- MODULE Spec2Model ----------------------------
(***************************************************************************)
(* Grounding-grid calculation engine (soilMath, groundingMath,             *)
(* potentialField) and the wizard state of App.tsx that calls it.          *)
(*                                                                         *)
(* JavaScript numbers are IEEE-754 binary floating point.  They are        *)
(* modelled as binary floating point with the same structure (NaN, signed  *)
(* infinities, finite values s * m * 2^e, one rounding to nearest-even per *)
(* arithmetic operation, the exponent range of a double) and a significand *)
(* of Prec bits instead of 53.  `undefined` passed where a number is       *)
(* expected behaves as NaN in every comparison and operation used by the   *)
(* engine, so a missing numeric argument is the value NaN.                 *)
(***************************************************************************)
EXTENDS Integers, Sequences, FiniteSets, TLC

(***************************************************************************)
(* Floating-point numbers                                                  *)
(***************************************************************************)

\* Significand width in bits (a double has 53).
Prec == 11

\* Exponent range of a double: largest finite below 2^1024, smallest
\* positive 2^-1074.
EMax == 1023
EMin == 0 - 1074

NaN == [c |-> "nan", s |-> 1, m |-> 0, e |-> 0]
PosInf == [c |-> "inf", s |-> 1, m |-> 0, e |-> 0]
NegInf == [c |-> "inf", s |-> 0 - 1, m |-> 0, e |-> 0]
Zero == [c |-> "fin", s |-> 1, m |-> 0, e |-> 0]

Inf(s) == IF s > 0 THEN PosInf ELSE NegInf

IsNaN(a) == a.c = "nan"
IsInf(a) == a.c = "inf"
IsFin(a) == a.c = "fin"
IsZero(a) == a.c = "fin" /\ a.m = 0

\* Number of bits of the integer n, 0 <= n < 2^31.
BitLen4(n) == IF n < 4 THEN (IF n < 2 THEN n ELSE 2) ELSE (IF n < 8 THEN 3 ELSE 4)
BitLen8(n) == IF n < 16 THEN BitLen4(n) ELSE 4 + BitLen4(n \div 16)
BitLen16(n) == IF n < 256 THEN BitLen8(n) ELSE 8 + BitLen8(n \div 256)
BitLen(n) == IF n < 65536 THEN BitLen16(n) ELSE 16 + BitLen16(n \div 65536)

\* The float s * m * 2^e for a significand m of Prec bits: overflow gives an
\* infinity, underflow gives 0.
Pack(s, m, e) ==
  IF e + Prec - 1 > EMax THEN Inf(s)
  ELSE IF e + Prec - 1 < EMin THEN Zero
  ELSE [c |-> "fin", s |-> s, m |-> m, e |-> e]

\* Round to nearest, ties to even: q is the kept significand, r the
\* remainder dropped, half the weight of half a unit in the last place.
RoundQ(s, q, r, half, e) ==
  IF r > half \/ (r = half /\ q % 2 = 1)
  THEN (IF q + 1 = 2^Prec THEN Pack(s, 2^(Prec - 1), e + 1)
        ELSE Pack(s, q + 1, e))
  ELSE Pack(s, q, e)

RoundSh(s, M, E, sh) ==
  IF sh <= 0 THEN Pack(s, M * 2^(0 - sh), E + sh)
  ELSE RoundQ(s, M \div 2^sh, M % 2^sh, 2^(sh - 1), E + sh)

\* The float nearest to s * M * 2^E, for an integer M >= 0 whose lowest bit
\* may carry the "inexact" (sticky) information.
Round(s, M, E) == IF M = 0 THEN Zero ELSE RoundSh(s, M, E, BitLen(M) - Prec)

RoundInt(v, E) == IF v < 0 THEN Round(0 - 1, 0 - v, E) ELSE Round(1, v, E)

\* The integer n as a number.
Num(n) == RoundInt(n, 0)

FNeg(a) ==
  IF IsNaN(a) \/ IsZero(a) THEN a ELSE [a EXCEPT !.s = 0 - a.s]

FAbs(a) == IF IsNaN(a) THEN a ELSE [a EXCEPT !.s = 1]

\* hi + lo for finite non-zero numbers with hi.e >= lo.e; an addend more
\* than Prec + 3 binary places below the other only makes the sum inexact.
AddOrd(hi, lo) ==
  IF hi.e - lo.e > Prec + 3
  THEN RoundInt(hi.s * hi.m * 2^(Prec + 3) + lo.s, hi.e - Prec - 3)
  ELSE RoundInt(hi.s * hi.m * 2^(hi.e - lo.e) + lo.s * lo.m, lo.e)

\* a + b
FAdd(a, b) ==
  IF IsNaN(a) \/ IsNaN(b) THEN NaN
  ELSE IF IsInf(a) THEN (IF IsInf(b) /\ b.s # a.s THEN NaN ELSE a)
  ELSE IF IsInf(b) THEN b
  ELSE IF a.m = 0 THEN b
  ELSE IF b.m = 0 THEN a
  ELSE IF a.e >= b.e THEN AddOrd(a, b)
  ELSE AddOrd(b, a)

\* a - b
FSub(a, b) == FAdd(a, FNeg(b))

\* a * b
FMul(a, b) ==
  IF IsNaN(a) \/ IsNaN(b) THEN NaN
  ELSE IF IsInf(a) \/ IsInf(b)
       THEN (IF IsZero(a) \/ IsZero(b) THEN NaN ELSE Inf(a.s * b.s))
  ELSE Round(a.s * b.s, a.m * b.m, a.e + b.e)

\* s * num / den * 2^E for positive integers num, den.
DivInt(s, num, den, E) ==
  Round(s, 2 * (num \div den) + (IF num % den = 0 THEN 0 ELSE 1), E - 1)

\* a / b
FDiv(a, b) ==
  IF IsNaN(a) \/ IsNaN(b) THEN NaN
  ELSE IF IsInf(a) THEN (IF IsInf(b) THEN NaN ELSE Inf(a.s * b.s))
  ELSE IF IsInf(b) THEN Zero
  ELSE IF b.m = 0 THEN (IF a.m = 0 THEN NaN ELSE Inf(a.s * b.s))
  ELSE IF a.m = 0 THEN Zero
  ELSE DivInt(a.s * b.s, a.m * 2^(Prec + 2), b.m, a.e - b.e - Prec - 2)

\* The decimal literal n / d, such as 0.09 = 9/100.
Dec(n, d) == FDiv(Num(n), Num(d))

One == Pack(1, 2^(Prec - 1), 1 - Prec)
Two == Pack(1, 2^(Prec - 1), 2 - Prec)

\* Comparisons: every comparison with NaN is false.
Sign(a) == IF IsZero(a) THEN 0 ELSE a.s

MagLt(a, b) ==
  IF IsInf(a) THEN FALSE
  ELSE IF IsInf(b) THEN TRUE
  ELSE IF a.m = 0 THEN b.m # 0
  ELSE IF b.m = 0 THEN FALSE
  ELSE a.e < b.e \/ (a.e = b.e /\ a.m < b.m)

FLt(a, b) ==
  /\ ~IsNaN(a) /\ ~IsNaN(b)
  /\ \/ Sign(a) < Sign(b)
     \/ Sign(a) = 1 /\ Sign(b) = 1 /\ MagLt(a, b)
     \/ Sign(a) = 0 - 1 /\ Sign(b) = 0 - 1 /\ MagLt(b, a)
FEq(a, b) == ~IsNaN(a) /\ ~IsNaN(b) /\ a = b
FLe(a, b) == FLt(a, b) \/ FEq(a, b)
FGt(a, b) == FLt(b, a)
FGe(a, b) == FLe(b, a)
FNe(a, b) == ~FEq(a, b)

\* !x for a number: true for 0, NaN and a missing argument.
Falsy(a) == IsNaN(a) \/ IsZero(a)

\* Number.isFinite
IsFinite(a) == IsFin(a)

\* Math.max / Math.min of two numbers (NaN if either is NaN).
FMax(a, b) == IF IsNaN(a) \/ IsNaN(b) THEN NaN ELSE IF FLt(a, b) THEN b ELSE a
FMin(a, b) == IF IsNaN(a) \/ IsNaN(b) THEN NaN ELSE IF FLt(b, a) THEN b ELSE a

\* Integer square root, bit by bit.
RECURSIVE ISqrtBits(_, _, _)
ISqrtBits(v, bit, res) ==
  IF bit = 0 THEN res
  ELSE IF (res + bit) * (res + bit) <= v
       THEN ISqrtBits(v, bit \div 2, res + bit)
       ELSE ISqrtBits(v, bit \div 2, res)

SqrtRoot(v, root, E) ==
  Round(1, 2 * root + (IF root * root = v THEN 0 ELSE 1), E - 1)

\* sqrt(a.m * 2^a.e) with the significand shifted by sh so that the
\* exponent is even.
SqrtSh(a, sh) ==
  SqrtRoot(a.m * 2^sh, ISqrtBits(a.m * 2^sh, 2^(Prec + 1), 0), (a.e - sh) \div 2)

\* Math.sqrt
FSqrt(a) ==
  IF IsNaN(a) THEN NaN
  ELSE IF IsZero(a) THEN Zero
  ELSE IF a.s < 0 THEN NaN
  ELSE IF IsInf(a) THEN PosInf
  ELSE IF (a.e - (Prec + 2)) % 2 = 0 THEN SqrtSh(a, Prec + 2)
  ELSE SqrtSh(a, Prec + 3)

\* Fixed-point fraction width inside Math.log, Math.log10 and Math.pow.
FracBits == 14

\* The first `bits` fractional bits of log2(y / 2^FracBits) for a fixed-point
\* y in [1, 2), by repeated squaring.
RECURSIVE Log2Frac(_, _, _)
Log2Frac(y, bits, acc) ==
  IF bits = 0 THEN acc
  ELSE IF (y * y) \div 2^FracBits >= 2^(FracBits + 1)
       THEN Log2Frac((y * y) \div 2^(FracBits + 1), bits - 1, 2 * acc + 1)
       ELSE Log2Frac((y * y) \div 2^FracBits, bits - 1, 2 * acc)

\* log2 of a finite positive a.
Log2Pos(a) ==
  RoundInt((a.e + Prec - 1) * 2^FracBits
             + Log2Frac(a.m * 2^(FracBits - (Prec - 1)), FracBits, 0),
           0 - FracBits)

\* ln 2 and log10 2 to 16 binary places.
Ln2 == Round(1, 45426, 0 - 16)
Log10Of2 == Round(1, 19728, 0 - 16)

LogBase(a, scale) ==
  IF IsNaN(a) THEN NaN
  ELSE IF IsZero(a) THEN NegInf
  ELSE IF a.s < 0 THEN NaN
  ELSE IF IsInf(a) THEN PosInf
  ELSE FMul(Log2Pos(a), scale)

\* Math.log and Math.log10
FLog(a) == LogBase(a, Ln2)
FLog10(a) == LogBase(a, Log10Of2)

\* x^n for an integer n >= 1, by squaring.
FSq(x) == FMul(x, x)

RECURSIVE PowInt(_, _)
PowInt(x, n) ==
  IF n = 1 THEN x
  ELSE IF n % 2 = 0 THEN FSq(PowInt(x, n \div 2))
  ELSE FMul(x, PowInt(x, n - 1))

\* 2^(fr / 2^bits) in fixed point, for 0 <= fr < 2^bits, consuming the
\* fraction from its lowest bit: 2^(0.b1 b2 ...) = sqrt(2^b1 * sqrt(2^b2 * ...)).
RECURSIVE Exp2Frac(_, _, _)
Exp2Frac(fr, bits, y) ==
  IF bits = 0 THEN y
  ELSE Exp2Frac(fr \div 2, bits - 1,
                ISqrtBits((IF fr % 2 = 1 THEN 2 * y ELSE y) * 2^FracBits,
                          2^FracBits, 0))

\* 2^(ip + fr / 2^FracBits)
Exp2Parts(ip, fr) ==
  IF ip > 2000 THEN PosInf
  ELSE IF ip < 0 - 2000 THEN Zero
  ELSE Round(1, Exp2Frac(fr, FracBits, 2^FracBits), ip - FracBits)

\* 2^z for z = neg * (ipm + fr0 / 2^FracBits)
Exp2Signed(neg, ipm, fr0) ==
  IF ~neg THEN Exp2Parts(ipm, fr0)
  ELSE IF fr0 = 0 THEN Exp2Parts(0 - ipm, 0)
  ELSE Exp2Parts(0 - ipm - 1, 2^FracBits - fr0)

\* 2^z for a finite z.
Exp2(z) ==
  IF IsZero(z) \/ z.e < 0 - 30 THEN One
  ELSE IF z.e > 12 THEN (IF z.s > 0 THEN PosInf ELSE Zero)
  ELSE IF z.e >= 0 THEN Exp2Signed(z.s < 0, z.m * 2^z.e, 0)
  ELSE IF 0 - z.e <= FracBits
       THEN Exp2Signed(z.s < 0, z.m \div 2^(0 - z.e),
                       (z.m % 2^(0 - z.e)) * 2^(FracBits + z.e))
  ELSE Exp2Signed(z.s < 0, z.m \div 2^(0 - z.e),
                  (z.m % 2^(0 - z.e)) \div 2^(0 - z.e - FracBits))

\* Whether a finite y holds an integer of magnitude below 2^20, and that
\* integer.
IsSmallInt(y) ==
  /\ IsFin(y)
  /\ \/ y.m = 0
     \/ y.e >= 0 /\ y.e + Prec <= 20
     \/ y.e < 0 /\ 0 - y.e < Prec /\ y.m % 2^(0 - y.e) = 0
IntOf(y) ==
  IF y.m = 0 THEN 0
  ELSE IF y.e >= 0 THEN y.s * y.m * 2^y.e
  ELSE y.s * (y.m \div 2^(0 - y.e))

\* Math.pow(x, n) for an integer n held exactly by the caller.
FPowInt(x, n) ==
  IF n = 0 THEN One
  ELSE IF IsNaN(x) THEN NaN
  ELSE IF FAbs(x) = One THEN (IF n % 2 = 0 THEN One ELSE x)
  ELSE IF n > 0 THEN PowInt(x, n)
  ELSE FDiv(One, PowInt(x, 0 - n))

\* Math.pow(x, y)
FPow(x, y) ==
  IF IsNaN(y) THEN NaN
  ELSE IF IsZero(y) THEN One
  ELSE IF IsNaN(x) THEN NaN
  ELSE IF IsInf(y)
       THEN (IF FEq(FAbs(x), One) THEN NaN
             ELSE IF FGt(FAbs(x), One) = (y.s > 0) THEN PosInf ELSE Zero)
  ELSE IF IsSmallInt(y) THEN FPowInt(x, IntOf(y))
  ELSE IF IsZero(x) THEN (IF y.s > 0 THEN Zero ELSE PosInf)
  ELSE IF IsInf(x) THEN (IF y.s > 0 THEN PosInf ELSE Zero)
  ELSE IF x.s < 0 THEN NaN
  ELSE Exp2(FMul(y, Log2Pos(x)))

(***************************************************************************)
(* State: one call of an exported engine function at a time.               *)
(*   pc    - "idle" (no call), "loop" (inside the while loop of            *)
(*           calculateN), "done" (the call has returned)                   *)
(*   fn    - the exported function called                                  *)
(*   args  - its arguments                                                 *)
(*   ret   - its return value                                              *)
(*   frame - the locals of calculateN while its loop runs; frame.n is the  *)
(*           loop counter, an integer held exactly by a double             *)
(***************************************************************************)
VARIABLES pc, fn, args, ret, frame, app

vars == <<pc, fn, args, ret, frame, app>>

NoArgs == [none |-> TRUE]
NoRet == [none |-> TRUE]
NoFrame == [k |-> Zero, alpha |-> Zero, n |-> 0, term |-> Zero, sum |-> Zero]

\* The App component's useState values after the first render.
InitialApp ==
  [activeStep |-> 1, meshLx |-> "50", meshLy |-> "40", meshNx |-> "11",
   meshNy |-> "9", soilType |-> "2-layer", rho1 |-> "", rho2 |-> "",
   layerDepth |-> "", apparentRho |-> [null |-> TRUE], meshRods |-> << >>,
   meshDepth |-> "0,5", meshGauge |-> "50", meshD |-> "7,98",
   shortCircuitCurrent |-> "", currentDivisionFactor |-> "", time |-> "",
   selectedMaterialId |-> "copper_soft",
   selectedConnectionId |-> "exothermic", ambientTemp |-> "30",
   useTotalCurrentForSizing |-> FALSE, hasSurfaceLayer |-> TRUE,
   surfaceLayerResistivity |-> "3000", surfaceLayerThickness |-> "0,1",
   bodyWeight |-> "50",
   results |-> [vPasso |-> [null |-> TRUE], vToque |-> [null |-> TRUE],
                duration |-> [null |-> TRUE]],
   selectedResistanceMethod |-> "NBR", hasPerimeterRods |-> FALSE,
   rodLength |-> "2,4", rodDiameter |-> "12,7"]

Init ==
  /\ pc = "idle"
  /\ fn = "none"
  /\ args = NoArgs
  /\ ret = NoRet
  /\ frame = NoFrame
  /\ app = InitialApp

\* The caller takes the result; the next call starts from a clean slate.
Return ==
  /\ pc = "done"
  /\ pc' = "idle"
  /\ fn' = "none"
  /\ args' = NoArgs
  /\ ret' = NoRet
  /\ frame' = NoFrame
  /\ UNCHANGED app

\* A call that returns v without entering the series loop.
Returns(f, a, v) ==
  /\ pc = "idle"
  /\ pc' = "done"
  /\ fn' = f
  /\ args' = a
  /\ ret' = v
  /\ frame' = NoFrame
  /\ UNCHANGED app

(***************************************************************************)
(* soilMath                                                                *)
(***************************************************************************)

tolerance == Dec(1, 1000000)
maxIterations == 10000

calculateReflectionK(rho1, rho2) ==
  IF FEq(FAdd(rho1, rho2), Zero) THEN Zero
  ELSE FDiv(FSub(rho2, rho1), FAdd(rho2, rho1))

\* What the exported function f returns once calculateN has produced N.
Finish(f, a, N) == IF f = "calculateN" THEN N ELSE FMul(N, a.rho1)

\* The loop's initial locals.
EnterLoop(f, a, kk, al) ==
  /\ pc = "idle"
  /\ pc' = "loop"
  /\ fn' = f
  /\ args' = a
  /\ ret' = NoRet
  /\ frame' = [k |-> kk, alpha |-> al, n |-> 1, term |-> One, sum |-> Zero]
  /\ UNCHANGED app

\* calculateN without its alpha === 0 early return.
EnterNNoGuard(f, a, kk, al) == EnterLoop(f, a, kk, al)

\* calculateN up to its loop: the alpha === 0 early return, or the loop's
\* initial locals.
EnterN(f, a, kk, al) ==
  IF FEq(al, Zero)
  THEN Returns(f, a, Finish(f, a, One))
  ELSE EnterLoop(f, a, kk, al)

\* The while condition without its iteration cap.
LoopCondNoCap(fr) == FGt(FAbs(fr.term), tolerance)

\* The while condition of calculateN.
LoopCond(fr) == FGt(FAbs(fr.term), tolerance) /\ fr.n < maxIterations

\* term = kn / denominator for the loop counter n.
Term(kk, n, al) ==
  FDiv(FPowInt(kk, n),
       FSqrt(FAdd(One, FPow(FDiv(FMul(Two, Num(n)), al), Two))))

\* sum += term; n++
NextFrame(fr, t) ==
  [fr EXCEPT !.term = t, !.sum = FAdd(fr.sum, t), !.n = fr.n + 1]

\* One execution of the loop body.
LoopBody ==
  /\ pc = "loop"
  /\ LoopCond(frame)
  /\ frame' = NextFrame(frame, Term(frame.k, frame.n, frame.alpha))
  /\ UNCHANGED <<pc, fn, args, ret, app>>

\* The loop ends: calculateN returns 1 + 2 * sum, and calculateApparentResistivity
\* multiplies it by rho1.
LoopExit ==
  /\ pc = "loop"
  /\ ~LoopCond(frame)
  /\ ret' = Finish(fn, args, FAdd(One, FMul(Two, frame.sum)))
  /\ pc' = "done"
  /\ UNCHANGED <<fn, args, frame, app>>

calculateN(kk, al) ==
  EnterN("calculateN", [k |-> kk, alpha |-> al], kk, al)

\* The homogeneous-soil test without its rho2 === rho1 disjunct.
IsHomogeneousNoEq(rho1, rho2, h1) ==
  Falsy(rho2) \/ Falsy(h1) \/ FLe(h1, Zero)

IsHomogeneous(rho1, rho2, h1) ==
  Falsy(rho2) \/ FEq(rho2, rho1) \/ Falsy(h1) \/ FLe(h1, Zero)

calculateApparentResistivity(rho1, rho2, h1, r) ==
  LET a == [rho1 |-> rho1, rho2 |-> rho2, h1 |-> h1, r |-> r]
  IN IF IsHomogeneous(rho1, rho2, h1)
     THEN Returns("calculateApparentResistivity", a, rho1)
     ELSE EnterN("calculateApparentResistivity", a,
                 calculateReflectionK(rho1, rho2), FDiv(r, h1))

\* Inputs of the soil functions.
SoilK == {Num(0 - 1), Zero, Dec(1, 2), One, Num(2), NaN}
SoilAlpha == {Zero, Pack(1, 2^(Prec - 1), 0 - 1000), Dec(1, 1000), One, NaN}
SoilRho1 == {Num(100), Num(300), Zero}
SoilRho2 == {NaN, Zero, Num(100), Num(300)}
SoilH1 == {NaN, Zero, Num(0 - 1), Num(2)}
SoilR == {Zero, Num(5)}

CallN ==
  /\ pc = "idle"
  /\ \E kk \in SoilK, al \in SoilAlpha : calculateN(kk, al)

CallApparentResistivity ==
  /\ pc = "idle"
  /\ \E rho1 \in SoilRho1, rho2 \in SoilRho2, h1 \in SoilH1, r \in SoilR :
       calculateApparentResistivity(rho1, rho2, h1, r)

NextSoil == CallN \/ CallApparentResistivity \/ LoopBody \/ LoopExit \/ Return

SpecSoil == Init /\ [][NextSoil]_vars

(***************************************************************************)
(* groundingMath: grid resistance                                          *)
(***************************************************************************)

\* Math.PI
Pi == Dec(355, 113)

calculatePreliminaryResistanceA(rhoA, A, Lt) ==
  IF FLe(rhoA, Zero) \/ FLe(A, Zero) \/ FLe(Lt, Zero) THEN Zero
  ELSE FAdd(FDiv(rhoA, FMul(Num(4), FSqrt(FDiv(A, Pi)))), FDiv(rhoA, Lt))

calculatePreliminaryResistanceB(rhoA, A, Lt, h) ==
  IF FLe(rhoA, Zero) \/ FLe(A, Zero) \/ FLe(Lt, Zero) \/ FLe(h, Zero) THEN Zero
  ELSE LET sqrt20A == FSqrt(FMul(Num(20), A))
           term1 == FDiv(One, Lt)
           term2Part ==
             FAdd(One, FDiv(One, FAdd(One, FMul(h, FSqrt(FDiv(Num(20), A))))))
           term2 == FMul(FDiv(One, sqrt20A), term2Part)
       IN FMul(rhoA, FAdd(term1, term2))

\* Reference curves A, B, C of IEEE 80 Fig. 25.
curves ==
  << [h_ref |-> Zero,
      k1 |-> [m |-> Dec(0 - 4, 100), b |-> Dec(141, 100)],
      k2 |-> [m |-> Dec(15, 100), b |-> Dec(550, 100)]],
     [h_ref |-> Dec(1, 10),
      k1 |-> [m |-> Dec(0 - 5, 100), b |-> Dec(120, 100)],
      k2 |-> [m |-> Dec(10, 100), b |-> Dec(468, 100)]],
     [h_ref |-> FDiv(One, Num(6)),
      k1 |-> [m |-> Dec(0 - 5, 100), b |-> Dec(113, 100)],
      k2 |-> [m |-> Dec(0 - 5, 100), b |-> Dec(440, 100)]] >>

\* The coefficients of one curve.
CurveCoef(cv) ==
  [k1_m |-> cv.k1.m, k1_b |-> cv.k1.b, k2_m |-> cv.k2.m, k2_b |-> cv.k2.b]

\* hi + (hi - lo) * factor, the interpolation started from the wrong curve
LerpFromHi(lo, hi, factor) == FAdd(hi, FMul(FSub(hi, lo), factor))

\* lo + (hi - lo) * factor
Lerp(lo, hi, factor) == FAdd(lo, FMul(FSub(hi, lo), factor))

\* The coefficients interpolated between two curves.
InterpCoef(c1, c2, factor) ==
  [k1_m |-> Lerp(c1.k1.m, c2.k1.m, factor),
   k1_b |-> Lerp(c1.k1.b, c2.k1.b, factor),
   k2_m |-> Lerp(c1.k2.m, c2.k2.m, factor),
   k2_b |-> Lerp(c1.k2.b, c2.k2.b, factor)]

\* k1_m, k1_b, k2_m, k2_b for the relative depth h / sqrt(A).
SchwarzCoef(h_sqrtA) ==
  IF FLe(h_sqrtA, Zero) THEN CurveCoef(curves[1])
  ELSE IF FGe(h_sqrtA, curves[3].h_ref) THEN CurveCoef(curves[3])
  ELSE IF FLe(h_sqrtA, Dec(1, 10))
       THEN InterpCoef(curves[1], curves[2],
                       FDiv(FSub(h_sqrtA, Zero), FSub(Dec(1, 10), Zero)))
  ELSE InterpCoef(curves[2], curves[3],
                  FDiv(FSub(h_sqrtA, Dec(1, 10)),
                       FSub(curves[3].h_ref, Dec(1, 10))))

\* Ly > 0 ? Lx / Ly : 1, the ratio of the sides in the order given
LwRatioAsGiven(Lx, Ly) == IF FGt(Ly, Zero) THEN FDiv(Lx, Ly) ELSE One

\* lwRatio = W > 0 ? L / W : 1 with L = max(Lx, Ly), W = min(Lx, Ly)
LwRatio(Lx, Ly) ==
  IF FGt(FMin(Lx, Ly), Zero) THEN FDiv(FMax(Lx, Ly), FMin(Lx, Ly)) ELSE One

\* The rods argument when it is not passed.
NoRods == [absent |-> TRUE]
HasRods(rods) == "count" \in DOMAIN rods

GridR1(rho, A, Lc, a_prime, k1, k2) ==
  FMul(FDiv(rho, FMul(Pi, Lc)),
       FSub(FAdd(FLog(FDiv(FMul(Two, Lc), a_prime)),
                 FDiv(FMul(k1, Lc), FSqrt(A))),
            k2))

RodsR2(rho, A, k1, nr, Lr, b) ==
  FMul(FDiv(rho, FMul(FMul(FMul(Two, Pi), nr), Lr)),
       FAdd(FSub(FLog(FDiv(FMul(Num(4), Lr), b)), One),
            FMul(FDiv(FMul(FMul(Two, k1), Lr), FSqrt(A)),
                 FPow(FSub(FSqrt(nr), One), Two))))

MutualR12(rho, A, Lc, k1, k2, Lr) ==
  FMul(FDiv(rho, FMul(Pi, Lc)),
       FAdd(FSub(FAdd(FLog(FDiv(FMul(Two, Lc), Lr)),
                      FDiv(FMul(k1, Lc), FSqrt(A))),
                 k2),
            One))

\* rg = r1, replaced by numerator / denominator without the test of the
\* denominator.
SchwarzRgNoFallback(k1, k2, r1, r2, r12, numerator, denominator) ==
  [resistance |-> FDiv(numerator, denominator),
   k1 |-> k1, k2 |-> k2, r1 |-> r1, r2 |-> r2, r12 |-> r12]

\* rg = r1, replaced by numerator / denominator if denominator !== 0.
SchwarzRg(k1, k2, r1, r2, r12, numerator, denominator) ==
  [resistance |-> IF FNe(denominator, Zero) THEN FDiv(numerator, denominator)
                  ELSE r1,
   k1 |-> k1, k2 |-> k2, r1 |-> r1, r2 |-> r2, r12 |-> r12]

SchwarzCombine(k1, k2, r1, r2, r12) ==
  SchwarzRg(k1, k2, r1, r2, r12,
            FSub(FMul(r1, r2), FMul(r12, r12)),
            FSub(FAdd(r1, r2), FMul(Two, r12)))

GridOnly(k1, k2, r1) ==
  [resistance |-> r1, k1 |-> k1, k2 |-> k2, r1 |-> r1, r2 |-> Zero, r12 |-> Zero]

\* The rod radius b in metres.
RodRadius(rods) == FDiv(FDiv(rods.diameter_mm, Num(1000)), Two)

SchwarzRods(rho, A, Lc, rods, k1, k2, r1) ==
  IF ~HasRods(rods) \/ FLe(rods.count, Zero) \/ FLe(rods.length, Zero)
  THEN GridOnly(k1, k2, r1)
  ELSE IF \/ FEq(rods.count, Zero) \/ FEq(rods.length, Zero)
          \/ FEq(RodRadius(rods), Zero)
  THEN GridOnly(k1, k2, r1)
  ELSE SchwarzCombine(k1, k2, r1,
                      RodsR2(rho, A, k1, rods.count, rods.length, RodRadius(rods)),
                      MutualR12(rho, A, Lc, k1, k2, rods.length))

SchwarzK(rho, A, Lc, rods, a_prime, k1, k2) ==
  SchwarzRods(rho, A, Lc, rods, k1, k2, GridR1(rho, A, Lc, a_prime, k1, k2))

SchwarzGrid(rho, A, Lc, rods, a_prime, lwRatio, cf) ==
  SchwarzK(rho, A, Lc, rods, a_prime,
           FAdd(FMul(cf.k1_m, lwRatio), cf.k1_b),
           FAdd(FMul(cf.k2_m, lwRatio), cf.k2_b))

calculateSchwarzResistance(rho, A, Lx, Ly, Lc, h, d_mm, rods) ==
  IF \/ FLe(rho, Zero) \/ FLe(A, Zero) \/ FLe(Lc, Zero)
     \/ FLe(h, Zero) \/ FLe(d_mm, Zero)
  THEN [resistance |-> Zero, k1 |-> Zero, k2 |-> Zero]
  ELSE SchwarzGrid(rho, A, Lc, rods,
                   FSqrt(FMul(FMul(FDiv(FDiv(d_mm, Num(1000)), Two), Two), h)),
                   LwRatio(Lx, Ly),
                   SchwarzCoef(FDiv(h, FSqrt(A))))

\* Inputs of the grid-resistance functions.  MinPos is the smallest positive
\* number.
MinPos == Pack(1, 2^(Prec - 1), EMin - Prec + 1)
GridRho == {Num(100), Zero, Num(0 - 5), NaN, MinPos}
GridA == {Num(2000), Num(100), Zero, NaN}
GridSides == {<<Num(50), Num(40)>>, <<Num(40), Num(50)>>, <<Num(10), Zero>>,
              <<Zero, Num(10)>>}
GridLc == {Num(890), Zero, NaN}
GridH == {Dec(1, 2), One, Num(6), Zero, NaN}
GridD == {Dec(798, 100), Zero, NaN}
GridRods ==
  {NoRods}
    \cup [count : {Num(4), Zero, Num(0 - 1)},
          length : {Dec(24, 10), Zero},
          diameter_mm : {Dec(127, 10), Zero, Dec(0 - 127, 10)}]

CallPreliminaryResistanceA ==
  /\ pc = "idle"
  /\ \E rhoA \in GridRho, A \in GridA, Lt \in GridLc :
       Returns("calculatePreliminaryResistanceA",
               [rhoA |-> rhoA, A |-> A, Lt |-> Lt],
               calculatePreliminaryResistanceA(rhoA, A, Lt))

CallPreliminaryResistanceB ==
  /\ pc = "idle"
  /\ \E rhoA \in GridRho, A \in GridA, Lt \in GridLc, h \in GridH :
       Returns("calculatePreliminaryResistanceB",
               [rhoA |-> rhoA, A |-> A, Lt |-> Lt, h |-> h],
               calculatePreliminaryResistanceB(rhoA, A, Lt, h))

CallSchwarzResistance ==
  /\ pc = "idle"
  /\ \E rho \in GridRho, A \in GridA, side \in GridSides, Lc \in GridLc,
        h \in GridH, d_mm \in GridD, rods \in GridRods :
       Returns("calculateSchwarzResistance",
               [rho |-> rho, A |-> A, Lx |-> side[1], Ly |-> side[2], Lc |-> Lc,
                h |-> h, d_mm |-> d_mm, rods |-> rods],
               calculateSchwarzResistance(rho, A, side[1], side[2], Lc, h, d_mm,
                                          rods))

NextGrid ==
  \/ CallPreliminaryResistanceA
  \/ CallPreliminaryResistanceB
  \/ CallSchwarzResistance
  \/ Return

SpecGrid == Init /\ [][NextGrid]_vars

(***************************************************************************)
(* Claims about soilMath                                                   *)
(***************************************************************************)

\* C1: calculateN terminates for every k and every alpha # 0: the loop body
\* runs only while the last term exceeds the tolerance and n is below the cap
\* of 10000, n grows by one per iteration, so the body runs at most 10000
\* times, the loop is left with a term not above the tolerance or with
\* n = 10000, and a step taken with the last term not above the tolerance
\* is the return.
C1_Terminates ==
  /\ [](pc = "loop" => frame.n >= 1 /\ frame.n - 1 <= maxIterations)
  /\ [](pc = "done" /\ frame.n > 0 =>
          \/ ~FGt(FAbs(frame.term), tolerance)
          \/ frame.n = maxIterations)
  /\ [][pc = "loop" /\ pc' = "loop" =>
          /\ FGt(FAbs(frame.term), tolerance)
          /\ frame.n < maxIterations
          /\ frame'.n = frame.n + 1]_vars
  /\ [][pc = "loop" /\ ~LoopCondNoCap(frame) => pc' = "done"]_vars

\* The cap is what ends the loop: k = 1 or -1, the terms stay above the
\* tolerance, and the call returns at n = 10000.
C1_Witness ==
  /\ pc = "done"
  /\ FEq(FAbs(frame.k), One)
  /\ frame.n = maxIterations
  /\ FGt(FAbs(frame.term), tolerance)

\* C2: calculateApparentResistivity returns rho1 unchanged, for every r and
\* without evaluating the series, when rho2 is absent (0 or NaN), rho2
\* equals rho1, or h1 is absent or <= 0; in every other case it returns
\* calculateN(k, r / h1) * rho1 with k = calculateReflectionK(rho1, rho2).
C2_ApparentResistivity ==
  fn = "calculateApparentResistivity" =>
    LET hom == \/ IsNaN(args.rho2) \/ IsZero(args.rho2)
               \/ FEq(args.rho2, args.rho1)
               \/ IsNaN(args.h1) \/ FLe(args.h1, Zero)
        kk == calculateReflectionK(args.rho1, args.rho2)
        al == FDiv(args.r, args.h1)
        N == IF FEq(al, Zero) THEN One
             ELSE FAdd(One, FMul(Two, frame.sum))
    IN /\ hom => pc = "done" /\ ret = args.rho1 /\ frame = NoFrame
       /\ ~hom /\ ~FEq(al, Zero) =>
            frame.k = kk /\ frame.alpha = al /\ frame.n >= 1
       /\ ~hom /\ pc = "done" =>
            /\ ret = FMul(N, args.rho1)
            /\ ~FEq(al, Zero) => frame.n >= 2

\* rho1 = rho2 = 100, h1 = 2, r = 5 returns 100.
C2_Witness ==
  /\ pc = "done"
  /\ fn = "calculateApparentResistivity"
  /\ args.rho1 = Num(100) /\ args.rho2 = Num(100)
  /\ args.h1 = Num(2) /\ args.r = Num(5)
  /\ ret = Num(100)

\* C3: calculateN(0, alpha) returns exactly 1 for every alpha > 0, after one
\* iteration whose term and sum are 0; calculateN(k, 0) returns 1 for every
\* k without entering the loop.
C3_SeriesVanishes ==
  fn = "calculateN" =>
    /\ FEq(args.alpha, Zero) => pc = "done" /\ ret = One /\ frame = NoFrame
    /\ FEq(args.k, Zero) /\ FGt(args.alpha, Zero) /\ pc = "done" =>
         /\ ret = One
         /\ frame.n = 2
         /\ frame.term = Zero
         /\ frame.sum = Zero

\* calculateN(0, 0.001) has returned.
C3_Witness ==
  /\ pc = "done"
  /\ fn = "calculateN"
  /\ args.k = Zero
  /\ args.alpha = Dec(1, 1000)
  /\ ret = One

(***************************************************************************)
(* Claims about the grid resistance                                        *)
(***************************************************************************)

\* A required input that is missing (NaN) or not positive.
Missing(x) == IsNaN(x) \/ FLe(x, Zero)

SchwarzDone == pc = "done" /\ fn = "calculateSchwarzResistance"

ValidGrid(a) ==
  /\ FGt(a.rho, Zero) /\ FGt(a.A, Zero) /\ FGt(a.Lc, Zero)
  /\ FGt(a.h, Zero) /\ FGt(a.d_mm, Zero)

\* C4: for valid grid inputs, calculateSchwarzResistance called with no
\* valid rods (rods absent, count <= 0, length <= 0 or rod diameter not
\* positive) returns resistance = r1 with r2 = 0 and r12 = 0.
C4_NoValidRods ==
  ( /\ SchwarzDone
    /\ ValidGrid(args)
    /\ \/ ~HasRods(args.rods)
       \/ FLe(args.rods.count, Zero)
       \/ FLe(args.rods.length, Zero)
       \/ ~FGt(args.rods.diameter_mm, Zero) )
  => /\ ret.resistance = ret.r1
     /\ ret.r2 = Zero
     /\ ret.r12 = Zero

ValidRods(r) ==
  /\ HasRods(r)
  /\ FGt(r.count, Zero) /\ FGt(r.length, Zero) /\ FGt(r.diameter_mm, Zero)

\* The denominator R1 + R2 - 2 * R12 of the returned resistances.
RetDenominator == FSub(FAdd(ret.r1, ret.r2), FMul(Two, ret.r12))

\* a' of the call.
ArgAPrime ==
  FSqrt(FMul(FMul(FDiv(FDiv(args.d_mm, Num(1000)), Two), Two), args.h))

\* C5: with valid rods, resistance = (R1*R2 - R12^2) / (R1 + R2 - 2*R12)
\* when that denominator is not 0 and resistance = R1 when it is exactly 0;
\* r1, r2 and r12 are reported as computed.
C5_Combined ==
  SchwarzDone /\ ValidGrid(args) /\ ValidRods(args.rods) =>
    /\ FNe(RetDenominator, Zero) =>
         ret.resistance =
           FDiv(FSub(FMul(ret.r1, ret.r2), FMul(ret.r12, ret.r12)),
                RetDenominator)
    /\ FEq(RetDenominator, Zero) => ret.resistance = ret.r1
    /\ ret.r1 = GridR1(args.rho, args.A, args.Lc, ArgAPrime, ret.k1, ret.k2)
    /\ ret.r2 = RodsR2(args.rho, args.A, ret.k1, args.rods.count,
                       args.rods.length, RodRadius(args.rods))
    /\ ret.r12 = MutualR12(args.rho, args.A, args.Lc, ret.k1, ret.k2,
                           args.rods.length)

\* The fallback is taken: the smallest positive resistivity makes R1, R2 and
\* R12 underflow to 0, the denominator is exactly 0 and R1 is returned.
C5_Witness ==
  /\ SchwarzDone /\ ValidGrid(args) /\ ValidRods(args.rods)
  /\ FEq(RetDenominator, Zero)
  /\ ret.resistance = ret.r1

\* C6: each grid-resistance method returns its zero result on any
\* non-positive or missing (NaN) required input.
C6_ZeroOnInvalid ==
  pc = "done" =>
    /\ ( /\ fn = "calculatePreliminaryResistanceA"
         /\ (Missing(args.rhoA) \/ Missing(args.A) \/ Missing(args.Lt)) )
       => ret = Zero
    /\ ( /\ fn = "calculatePreliminaryResistanceB"
         /\ \/ Missing(args.rhoA) \/ Missing(args.A)
            \/ Missing(args.Lt) \/ Missing(args.h) )
       => ret = Zero
    /\ ( /\ fn = "calculateSchwarzResistance"
         /\ \/ Missing(args.rho) \/ Missing(args.A) \/ Missing(args.Lc)
            \/ Missing(args.h) \/ Missing(args.d_mm) )
       => ret.resistance = Zero /\ ret.k1 = Zero /\ ret.k2 = Zero

(***************************************************************************)
(* groundingMath: conductor sizing (Onderdonk).                            *)
(***************************************************************************)

\* Ko = (1 / alpha20) - 20
ConductorKo(alpha20) == FSub(FDiv(One, alpha20), Num(20))

\* tcap * Math.log((Ko + tm) / (Ko + ta))
ConductorDenominator(Ko, tcap, tm, ta) ==
  FMul(tcap, FLog(FDiv(FAdd(Ko, tm), FAdd(Ko, ta))))

\* If * Math.sqrt(numerator / denominator), after the denominator guard
SectionOf(If, numerator, denominator) ==
  IF FLe(denominator, Zero) THEN Zero
  ELSE FMul(If, FSqrt(FDiv(numerator, denominator)))

calculateConductorSection(If, t, alpha20, rho20, tcap, tm, ta) ==
  IF \/ FLe(If, Zero) \/ FLe(t, Zero) \/ FLe(alpha20, Zero)
     \/ FLe(rho20, Zero) \/ FLe(tcap, Zero) \/ FLe(tm, ta)
  THEN Zero
  ELSE SectionOf(If,
                 FMul(FMul(FMul(t, alpha20), rho20), Num(10000)),
                 ConductorDenominator(ConductorKo(alpha20), tcap, tm, ta))

\* Math.sqrt(numerator / denominator), after the denominator guard
KfOf(numerator, denominator) ==
  IF FLe(denominator, Zero) THEN Zero
  ELSE FSqrt(FDiv(numerator, denominator))

calculateKf(alpha20, rho20, tcap, tm, ta) ==
  IF \/ FLe(alpha20, Zero) \/ FLe(rho20, Zero) \/ FLe(tcap, Zero)
     \/ FLe(tm, ta)
  THEN Zero
  ELSE KfOf(FMul(FMul(alpha20, rho20), Num(10000)),
            ConductorDenominator(ConductorKo(alpha20), tcap, tm, ta))

\* Inputs: fault current (kA), duration (s), the material constants of
\* conductorData.ts (annealed copper) with degenerate values, the connection
\* temperature limits and ambient temperatures on both sides of them.
CondIf     == {One, Num(10), Dec(126, 10), Zero}
CondT      == {Dec(1, 10), Dec(1, 2), One, Num(2), Zero}
CondAlpha  == {Dec(393, 100000), Zero}
CondRho20  == {Dec(1724, 1000), Num(0 - 1)}
CondTcap   == {Dec(3422, 1000), Zero}
CondTm     == {Num(250), Num(450), Num(1083)}
CondTa     == {Num(30), Num(40), Num(250), Num(0 - 300)}

CallConductorSection ==
  /\ pc = "idle"
  /\ \E If \in CondIf, t \in CondT, alpha20 \in CondAlpha,
        rho20 \in CondRho20, tcap \in CondTcap, tm \in CondTm, ta \in CondTa :
       Returns("calculateConductorSection",
               [If |-> If, t |-> t, alpha20 |-> alpha20, rho20 |-> rho20,
                tcap |-> tcap, tm |-> tm, ta |-> ta],
               calculateConductorSection(If, t, alpha20, rho20, tcap, tm, ta))

CallKf ==
  /\ pc = "idle"
  /\ \E alpha20 \in CondAlpha, rho20 \in CondRho20, tcap \in CondTcap,
        tm \in CondTm, ta \in CondTa :
       Returns("calculateKf",
               [alpha20 |-> alpha20, rho20 |-> rho20, tcap |-> tcap,
                tm |-> tm, ta |-> ta],
               calculateKf(alpha20, rho20, tcap, tm, ta))

NextConductor ==
  \/ CallConductorSection
  \/ CallKf
  \/ Return

SpecConductor == Init /\ [][NextConductor]_vars

(***************************************************************************)
(* Claims about conductor sizing.                                          *)
(***************************************************************************)

\* calculateKf applied to the material arguments of the current call
ArgKf == calculateKf(args.alpha20, args.rho20, args.tcap, args.tm, args.ta)

\* C7: for every call of calculateConductorSection with valid inputs the
\* result is the same number as If * calculateKf(...) * sqrt(t), and the two
\* functions return zero under the same guards (tm <= ta, non-positive
\* alpha20, rho20 or tcap, non-positive logarithmic denominator).
C7_SectionEqualsKfPath ==
  (pc = "done" /\ fn = "calculateConductorSection"
     /\ FGt(args.If, Zero) /\ FGt(args.t, Zero))
    => /\ ret = FMul(FMul(args.If, ArgKf), FSqrt(args.t))
       /\ (ret = Zero) <=> (ArgKf = Zero)

(***************************************************************************)
(* groundingMath: surface-layer derating, permissible voltages and the     *)
(* NBR 14039 touch-voltage curve.                                          *)
(***************************************************************************)

\* if (hs <= 0 || rho_s <= 0) return 1, with the first test strict
NoSurfaceLayerStrict(rho_s, hs) == FLt(hs, Zero) \/ FLe(rho_s, Zero)

\* if (hs <= 0 || rho_s <= 0) return 1
NoSurfaceLayer(rho_s, hs) == FLe(hs, Zero) \/ FLe(rho_s, Zero)

\* 1 - (0.09 * (1 - rho / rho_s)) / (2 * hs + 0.09)
DeratingTerm(rho, rho_s, hs) ==
  FDiv(FMul(Dec(9, 100), FSub(One, FDiv(rho, rho_s))),
       FAdd(FMul(Two, hs), Dec(9, 100)))

calculateDeratingFactor(rho, rho_s, hs) ==
  IF NoSurfaceLayer(rho_s, hs) THEN One
  ELSE IF FLt(FAbs(FSub(rho, rho_s)), Dec(1, 1000)) THEN One
  ELSE FSub(One, DeratingTerm(rho, rho_s, hs))

\* bodyWeight === '50' ? 0.116 : 0.157
BodyK(bodyWeight) == IF bodyWeight = "50" THEN Dec(116, 1000) ELSE Dec(157, 1000)

\* 1000 + factor * rho_s, the base resistance without the derating factor
BaseResistanceNoCs(factor, cs, rho_s) == FAdd(Num(1000), FMul(factor, rho_s))

\* 1000 + factor * cs * rho_s
BaseResistance(factor, cs, rho_s) ==
  FAdd(Num(1000), FMul(FMul(factor, cs), rho_s))

calculateMaxTouchVoltage(t, cs, rho_s, bodyWeight) ==
  IF FLe(t, Zero) THEN Zero
  ELSE FMul(BaseResistance(Dec(15, 10), cs, rho_s),
            FDiv(BodyK(bodyWeight), FSqrt(t)))

calculateMaxStepVoltage(t, cs, rho_s, bodyWeight) ==
  IF FLe(t, Zero) THEN Zero
  ELSE FMul(BaseResistance(Num(6), cs, rho_s),
            FDiv(BodyK(bodyWeight), FSqrt(t)))

LONG_DURATION_THRESHOLD == 3
LONG_DURATION_BODY_CURRENT == Dec(6, 1000)

\* t <= LONG_DURATION_THRESHOLD, with the comparison strict
IsShortDurationStrict(t) == FLt(t, Num(LONG_DURATION_THRESHOLD))

\* t <= LONG_DURATION_THRESHOLD
IsShortDuration(t) == FLe(t, Num(LONG_DURATION_THRESHOLD))

calculatePermissibleVoltages(t, cs, rho_s, bodyWeight) ==
  IF FLe(t, Zero)
  THEN [vPasso |-> Zero, vToque |-> Zero, duration |-> "curta"]
  ELSE IF IsShortDuration(t)
  THEN [vPasso |-> calculateMaxStepVoltage(t, cs, rho_s, bodyWeight),
        vToque |-> calculateMaxTouchVoltage(t, cs, rho_s, bodyWeight),
        duration |-> "curta"]
  ELSE [vPasso |-> FMul(LONG_DURATION_BODY_CURRENT,
                        BaseResistance(Num(6), cs, rho_s)),
        vToque |-> FMul(LONG_DURATION_BODY_CURRENT,
                        BaseResistance(Dec(15, 10), cs, rho_s)),
        duration |-> "longa"]

Null == [null |-> TRUE]

\* t <= 0, the test of calculateTolerableBodyCurrent without Number.isFinite
BodyCurrentInvalidNoFinite(t) == FLe(t, Zero)

\* !Number.isFinite(t) || t <= 0
BodyCurrentInvalid(t) == ~IsFin(t) \/ FLe(t, Zero)

calculateTolerableBodyCurrent(t, bodyWeight) ==
  IF BodyCurrentInvalid(t) THEN [ib |-> Null, duration |-> "curta"]
  ELSE IF IsShortDuration(t)
  THEN [ib |-> FDiv(BodyK(bodyWeight), FSqrt(t)), duration |-> "curta"]
  ELSE [ib |-> LONG_DURATION_BODY_CURRENT, duration |-> "longa"]

\* NBR14039Point
Pt(tn, td, v) == [t |-> Dec(tn, td), v |-> Num(v)]

nbr14039InternalCurve ==
  << Pt(1, 100, 1000), Pt(3, 100, 700), Pt(1, 10, 480), Pt(3, 10, 330),
     Pt(1, 1, 230), Pt(3, 1, 170), Pt(10, 1, 120) >>

nbr14039ExternalCurve ==
  << Pt(1, 100, 800), Pt(3, 100, 550), Pt(1, 10, 380), Pt(3, 10, 260),
     Pt(1, 1, 180), Pt(3, 1, 130), Pt(10, 1, 90) >>

\* ratio = (logT - logT1) / (logT2 - logT1)
LogRatio(logT, logT1, logT2) == FDiv(FSub(logT, logT1), FSub(logT2, logT1))

\* Math.pow(10, logV1 + (logV2 - logV1) * ratio)
LogLogValue(logV1, logV2, ratio) ==
  FPow(Num(10), FAdd(logV1, FMul(FSub(logV2, logV1), ratio)))

\* body of the for loop once the segment [p1.t, p2.t] holding t is found
LogLogSegment(p1, p2, t) ==
  LogLogValue(FLog10(p1.v), FLog10(p2.v),
              LogRatio(FLog10(t), FLog10(p1.t), FLog10(p2.t)))

\* the for loop over consecutive points, from index i (1-based)
RECURSIVE LogLogScan(_, _, _)
LogLogScan(points, t, i) ==
  IF i > Len(points) - 1 THEN Zero
  ELSE IF FGe(t, points[i].t) /\ FLe(t, points[i + 1].t)
  THEN LogLogSegment(points[i], points[i + 1], t)
  ELSE LogLogScan(points, t, i + 1)

\* interpolateLogLog without the two end-point returns
interpolateLogLogNoEnds(points, t) ==
  IF Len(points) = 0 THEN Zero ELSE LogLogScan(points, t, 1)

interpolateLogLog(points, t) ==
  IF Len(points) = 0 THEN Zero
  ELSE IF FLe(t, points[1].t) THEN points[1].v
  ELSE IF FGe(t, points[Len(points)].t) THEN points[Len(points)].v
  ELSE LogLogScan(points, t, 1)

calculateNBR14039TouchVoltage(t, area) ==
  IF ~IsFinite(t) \/ FLe(t, Zero) THEN Null
  ELSE interpolateLogLog(
         IF area = "interna" THEN nbr14039InternalCurve
                             ELSE nbr14039ExternalCurve,
         FMin(FMax(t, Dec(1, 100)), Num(10)))

\* Inputs.  Durations straddle 0, the 3 s threshold (with its two
\* neighbouring representable numbers) and both ends of the NBR 14039 table.
Below3 == Pack(1, 3 * 2^(Prec - 2) - 1, 2 - Prec)
Above3 == Pack(1, 3 * 2^(Prec - 2) + 1, 2 - Prec)
MaxFin == Pack(1, 2^Prec - 1, EMax - Prec + 1)

VoltT ==
  { NaN, PosInf, NegInf, Num(0 - 1), Zero, MinPos, Dec(5, 1000), Dec(1, 100),
    Dec(2, 100), Dec(3, 100), Dec(1, 10), Dec(3, 10), Dec(1, 2), One, Below3,
    Num(3), Above3,
    Num(5), Num(10), Num(11), MaxFin }
VoltCs    == {One, Dec(7, 10), NaN}
VoltRhoS  == {Num(3000), Zero}
BodyWeights == {"50", "70"}
Areas     == {"interna", "externa"}

DerRho    == {Num(100), Num(3000), Dec(1, 100), Zero, NaN}
DerRhoS   == {Num(3000), Num(100), Dec(105, 10000), Zero, Num(0 - 1), NaN}
DerHs     == {Dec(1, 10), Dec(15, 100), Zero, Dec(0 - 1, 10), NaN}

CallDeratingFactor ==
  /\ pc = "idle"
  /\ \E rho \in DerRho, rho_s \in DerRhoS, hs \in DerHs :
       Returns("calculateDeratingFactor",
               [rho |-> rho, rho_s |-> rho_s, hs |-> hs],
               calculateDeratingFactor(rho, rho_s, hs))

CallPermissibleVoltages ==
  /\ pc = "idle"
  /\ \E t \in VoltT, cs \in VoltCs, rho_s \in VoltRhoS, bw \in BodyWeights :
       Returns("calculatePermissibleVoltages",
               [t |-> t, cs |-> cs, rho_s |-> rho_s, bodyWeight |-> bw],
               calculatePermissibleVoltages(t, cs, rho_s, bw))

CallNBR14039TouchVoltage ==
  /\ pc = "idle"
  /\ \E t \in VoltT, area \in Areas :
       Returns("calculateNBR14039TouchVoltage",
               [t |-> t, area |-> area],
               calculateNBR14039TouchVoltage(t, area))

CallTolerableBodyCurrent ==
  /\ pc = "idle"
  /\ \E t \in VoltT, bw \in BodyWeights :
       Returns("calculateTolerableBodyCurrent", [t |-> t, bodyWeight |-> bw],
               calculateTolerableBodyCurrent(t, bw))

NextVoltage ==
  \/ CallDeratingFactor
  \/ CallPermissibleVoltages
  \/ CallTolerableBodyCurrent
  \/ CallNBR14039TouchVoltage
  \/ Return

SpecVoltage == Init /\ [][NextVoltage]_vars

(***************************************************************************)
(* Claims about permissible voltages and the derating factor.              *)
(***************************************************************************)

\* C8: calculatePermissibleVoltages reports duration 'curta' for every
\* t <= 3, the value 3 itself and t <= 0 (where both voltages are 0)
\* included, and 'longa' for every t > 3.
C8_DurationThreshold ==
  (pc = "done" /\ fn = "calculatePermissibleVoltages")
    => /\ FLe(args.t, Num(3)) => ret.duration = "curta"
       /\ FGt(args.t, Num(3)) => ret.duration = "longa"
       /\ FLe(args.t, Zero) => ret.vPasso = Zero /\ ret.vToque = Zero

\* t is exactly 3 s, a finite surface layer, and the short-duration branch ran
C8_Witness ==
  /\ pc = "done" /\ fn = "calculatePermissibleVoltages"
  /\ args.t = Num(3) /\ args.cs = One /\ args.rho_s = Num(3000)
  /\ ret.duration = "curta"
  /\ ret.vToque = calculateMaxTouchVoltage(Num(3), One, Num(3000), args.bodyWeight)
  /\ FGt(ret.vToque, Zero)

\* the voltage of the first / last table point of the selected curve
CurveEnd(area, first) ==
  IF area = "interna" THEN (IF first THEN Num(1000) ELSE Num(120))
                      ELSE (IF first THEN Num(800) ELSE Num(90))

\* C9: calculateNBR14039TouchVoltage returns null when t is not finite or
\* t <= 0; a finite positive t <= 0.01 yields the first table value
\* (1000 V internal, 800 V external) and t >= 10 the last one (120 V, 90 V),
\* exactly.
C9_NullAndClamp ==
  (pc = "done" /\ fn = "calculateNBR14039TouchVoltage")
    => /\ (~IsFinite(args.t) \/ FLe(args.t, Zero)) <=> (ret = Null)
       /\ (IsFinite(args.t) /\ FGt(args.t, Zero) /\ FLe(args.t, Dec(1, 100)))
            => ret = CurveEnd(args.area, TRUE)
       /\ (IsFinite(args.t) /\ FGe(args.t, Num(10)))
            => ret = CurveEnd(args.area, FALSE)

\* a duration strictly below the table (0.005 s) on the external curve
C9_Witness ==
  /\ pc = "done" /\ fn = "calculateNBR14039TouchVoltage"
  /\ args.t = Dec(5, 1000) /\ args.area = "externa"
  /\ ret = Num(800)

\* C10: calculateDeratingFactor returns exactly 1 when hs <= 0, when
\* rho_s <= 0, or when |rho - rho_s| < 0.001; otherwise it returns
\* 1 - 0.09 * (1 - rho / rho_s) / (2 * hs + 0.09).
C10_DeratingFactor ==
  (pc = "done" /\ fn = "calculateDeratingFactor")
    => IF \/ FLe(args.hs, Zero) \/ FLe(args.rho_s, Zero)
          \/ FLt(FAbs(FSub(args.rho, args.rho_s)), Dec(1, 1000))
       THEN ret = One
       ELSE ret = FSub(One,
                       FDiv(FMul(Dec(9, 100),
                                 FSub(One, FDiv(args.rho, args.rho_s))),
                            FAdd(FMul(Two, args.hs), Dec(9, 100))))

\* no surface layer (hs = 0) over a soil whose resistivity differs from rho_s
C10_Witness ==
  /\ pc = "done" /\ fn = "calculateDeratingFactor"
  /\ args.hs = Zero /\ args.rho = Num(100) /\ args.rho_s = Num(3000)
  /\ ret = One

(***************************************************************************)
(* potentialField: the surface potential of the grid and the touch and     *)
(* step matrices derived from it.  Conductor counts, rod indices and the   *)
(* resolution are integers; a matrix is a sequence of rows.                *)
(***************************************************************************)

\* An exception leaves the function instead of a value.
Thrown(kind) == [throw |-> kind]

\* Math.floor
FFloor(a) ==
  IF ~IsFin(a) \/ a.m = 0 \/ a.e >= 0 THEN a
  ELSE IF 0 - a.e >= Prec THEN (IF a.s > 0 THEN Zero ELSE Num(0 - 1))
  ELSE IF a.s > 0 THEN Num(a.m \div 2^(0 - a.e))
  ELSE Num(0 - (a.m \div 2^(0 - a.e))
           - (IF a.m % 2^(0 - a.e) = 0 THEN 0 ELSE 1))

\* if (x > max) max = x
MaxStep(x, max) == IF FGt(x, max) THEN x ELSE max

\* maxStep / maxPotential: the cells n..total of m in row-major order
\* folded into the running maximum.
RECURSIVE ScanMax(_, _, _, _, _)
ScanMax(m, cols, n, total, max) ==
  IF n > total THEN max
  ELSE ScanMax(m, cols, n + 1, total,
               MaxStep(m[((n - 1) \div cols) + 1][((n - 1) % cols) + 1], max))

\* The normalisation loop without its test of the maximum.
NormalizeNoGuard(m, cols, mx) ==
  [r \in 1..Len(m) |-> [c \in 1..cols |-> FDiv(m[r][c], mx)]]

\* if (max > 0) every cell is divided by max
Normalize(m, cols, mx) ==
  IF FGt(mx, Zero)
  THEN [r \in 1..Len(m) |-> [c \in 1..cols |-> FDiv(m[r][c], mx)]]
  ELSE m

\* Normalisation by the maximum of the rows x cols cells.
NormalizeByMax(m, cols) ==
  Normalize(m, cols, ScanMax(m, cols, 1, Len(m) * cols, Zero))

\* Math.sqrt(dx*dx + dy*dy)
GradOf(dx, dy) == FSqrt(FAdd(FMul(dx, dx), FMul(dy, dy)))

\* grad of cell (r, c) with the first column / row taken as the neighbour of
\* the last one.
StepGradWrapped(pm, r, c, cols) ==
  GradOf(FAbs(FSub(pm[r][c], IF c < cols THEN pm[r][c + 1] ELSE pm[r][1])),
         FAbs(FSub(pm[r][c], IF r < Len(pm) THEN pm[r + 1][c] ELSE pm[1][c])))

\* grad of cell (r, c), 1-based: the right and lower neighbours, or the cell
\* itself on the last column / row.
StepGrad(pm, r, c, cols) ==
  GradOf(FAbs(FSub(pm[r][c], IF c < cols THEN pm[r][c + 1] ELSE pm[r][c])),
         FAbs(FSub(pm[r][c], IF r < Len(pm) THEN pm[r + 1][c] ELSE pm[r][c])))

\* stepMatrix before normalisation; cols = potentialMatrix[0].length
StepGradMatrix(pm, cols) ==
  [r \in 1..Len(pm) |-> [c \in 1..cols |-> StepGrad(pm, r, c, cols)]]

\* A returned array of rows.
ArrayOf(m) == [rows |-> m]

\* potentialMatrix[0].length throws a TypeError when there is no row 0.
calculateStepMatrix(pm) ==
  IF Len(pm) = 0 THEN Thrown("TypeError")
  ELSE ArrayOf(NormalizeByMax(StepGradMatrix(pm, Len(pm[1])), Len(pm[1])))

\* A touch matrix that is the input matrix itself.
calculateTouchMatrixAlias(pm) == ArrayOf(pm)

calculateTouchMatrix(pm) ==
  ArrayOf([r \in 1..Len(pm) |-> [c \in 1..Len(pm[r]) |-> FSub(One, pm[r][c])]])

\* Math.floor(l / 1.5), without the minimum of 5
pointsInLineNoMin(l) ==
  IF IsNaN(l) THEN NaN ELSE FFloor(FDiv(l, Dec(15, 10)))

\* Math.max(5, Math.floor(l / 1.5)); Math.max gives NaN for a NaN argument
pointsInLine(l) ==
  IF IsNaN(l) THEN NaN ELSE FMax(Num(5), FFloor(FDiv(l, Dec(15, 10))))

\* The values of k for which k <= pointsInLine holds (none for NaN).
LineIndices(P) == IF IsNaN(P) THEN {} ELSE 0..IntOf(P)

\* The sources of horizontal conductor j, in the order pushed.
HorizontalLine(lx, j, stepY, z, P) ==
  [n \in 1..Cardinality(LineIndices(P)) |->
     [x |-> FMul(FDiv(Num(n - 1), P), lx), y |-> FMul(Num(j), stepY),
      z |-> z, weight |-> One]]

\* The sources of vertical conductor i, in the order pushed.
VerticalLine(ly, i, stepX, z, P) ==
  [n \in 1..Cardinality(LineIndices(P)) |->
     [x |-> FMul(Num(i), stepX), y |-> FMul(FDiv(Num(n - 1), P), ly),
      z |-> z, weight |-> One]]

\* Three sources of one rod counted from k = 0: the first at the grid's depth.
RodPointsFromZero(rod, stepX, stepY, depth, rodLength) ==
  [k \in 1..3 |->
     [x |-> FMul(Num(rod.i), stepX), y |-> FMul(Num(rod.j), stepY),
      z |-> FSub(FNeg(depth), FMul(FDiv(Num(k - 1), Num(3)), rodLength)),
      weight |-> Dec(15, 10)]]

\* The three sources of one rod.
RodPoints(rod, stepX, stepY, depth, rodLength) ==
  [k \in 1..3 |->
     [x |-> FMul(Num(rod.i), stepX), y |-> FMul(Num(rod.j), stepY),
      z |-> FSub(FNeg(depth), FMul(FDiv(Num(k), Num(3)), rodLength)),
      weight |-> Dec(15, 10)]]

RECURSIVE HorizontalSources(_, _, _, _, _)
HorizontalSources(lx, ny, stepY, z, j) ==
  IF j >= ny THEN << >>
  ELSE HorizontalLine(lx, j, stepY, z, pointsInLine(lx))
         \o HorizontalSources(lx, ny, stepY, z, j + 1)

RECURSIVE VerticalSources(_, _, _, _, _)
VerticalSources(ly, nx, stepX, z, i) ==
  IF i >= nx THEN << >>
  ELSE VerticalLine(ly, i, stepX, z, pointsInLine(ly))
         \o VerticalSources(ly, nx, stepX, z, i + 1)

RECURSIVE RodSources(_, _, _, _, _, _)
RodSources(rods, stepX, stepY, depth, rodLength, n) ==
  IF n > Len(rods) THEN << >>
  ELSE RodPoints(rods[n], stepX, stepY, depth, rodLength)
         \o RodSources(rods, stepX, stepY, depth, rodLength, n + 1)

\* sources, given stepX and stepY
SourcesFor(a, stepX, stepY) ==
  HorizontalSources(a.lx, a.ny, stepY, FNeg(a.depth), 0)
    \o VerticalSources(a.ly, a.nx, stepX, FNeg(a.depth), 0)
    \o RodSources(a.rods, stepX, stepY, a.depth, a.rodLength, 1)

\* sources of a call with arguments a
Sources(a) ==
  SourcesFor(a, FDiv(a.lx, Num(a.nx - 1)), FDiv(a.ly, Num(a.ny - 1)))

\* src.weight / Math.sqrt(dx*dx + dy*dy + dz*dz)
SourceTerm(dx, dy, dz, weight) ==
  FDiv(weight, FSqrt(FAdd(FAdd(FMul(dx, dx), FMul(dy, dy)), FMul(dz, dz))))

\* potential += src.weight / dist over the sources n..Len(sources); once
\* the running sum is NaN every further addition leaves it NaN.
RECURSIVE Potential(_, _, _, _, _)
Potential(px, py, sources, n, potential) ==
  IF n > Len(sources) \/ IsNaN(potential) THEN potential
  ELSE Potential(px, py, sources, n + 1,
                 FAdd(potential,
                      SourceTerm(FSub(px, sources[n].x),
                                 FSub(py, sources[n].y),
                                 FSub(Zero, sources[n].z),
                                 sources[n].weight)))

\* -offset + (c / (resolution - 1)) * extent, for the 0-based index c
PixelCoord(c, resolution, offset, extent) ==
  FAdd(FNeg(offset), FMul(FDiv(Num(c), Num(resolution - 1)), extent))

\* field before normalisation
RawField(resolution, offset, width, height, sources) ==
  [r \in 1..resolution |-> [c \in 1..resolution |->
     Potential(PixelCoord(c - 1, resolution, offset, width),
               PixelCoord(r - 1, resolution, offset, height),
               sources, 1, Zero)]]

\* The returned object, from the sources.
FieldResult(a, width, height, sources) ==
  [matrix |-> NormalizeByMax(RawField(a.resolution, a.offset, width, height,
                                      sources), a.resolution),
   width |-> width, height |-> height, offset |-> a.offset]

\* Array(resolution) throws a RangeError for a negative length.
calculatePotentialField(a) ==
  IF a.resolution < 0 THEN Thrown("RangeError")
  ELSE FieldResult(a, FAdd(a.lx, FMul(Two, a.offset)),
                   FAdd(a.ly, FMul(Two, a.offset)), Sources(a))

\* Inputs of the field functions: mesh sides (lx, ly), conductor counts
\* (nx, ny), burial depth, rods, output resolution and margin.
FieldSides == {<<Num(3), Num(3)>>, <<Num(9), Num(3)>>, <<Num(3), Num(9)>>,
               <<Zero, Num(3)>>}
FieldCounts == {<<2, 2>>, <<3, 2>>, <<2, 1>>, <<1, 2>>, <<0, 0>>}
FieldDepth == {Dec(1, 2), Zero}
FieldRods == {<< >>, <<[i |-> 1, j |-> 0]>>,
              <<[i |-> 1, j |-> 0], [i |-> 0, j |-> 1]>>}
FieldRodLength == {Dec(24, 10), Zero}
FieldResolution == {0 - 1, 0, 1, 2}
FieldOffset == {Dec(15, 10), Zero}

\* Potential matrices handed to the touch and step functions: no row, one
\* empty row, and every 1x1 .. 2x2 matrix over a few potentials in [0, 1].
StepCells == {Zero, MinPos, Dec(1, 4), Dec(1, 2), One}
PotentialMatrices ==
  {<< >>, << << >> >>}
    \cup UNION {[1..R -> [1..C -> StepCells]] : R \in 1..2, C \in 1..2}

CallPotentialField ==
  /\ pc = "idle"
  /\ \E sides \in FieldSides, counts \in FieldCounts, depth \in FieldDepth,
        rods \in FieldRods, rodLength \in FieldRodLength,
        resolution \in FieldResolution, offset \in FieldOffset :
       LET a == [lx |-> sides[1], ly |-> sides[2], nx |-> counts[1],
                 ny |-> counts[2], depth |-> depth, rods |-> rods,
                 rodLength |-> rodLength, resolution |-> resolution,
                 offset |-> offset]
       IN /\ pc' = "done"
          /\ fn' = "calculatePotentialField"
          /\ args' = a
          /\ ret' = calculatePotentialField(a)
          /\ frame' = IF resolution < 0 THEN NoFrame
                      ELSE [sources |-> Sources(a)]
          /\ UNCHANGED app

CallTouchMatrix ==
  /\ pc = "idle"
  /\ \E pm \in PotentialMatrices :
       Returns("calculateTouchMatrix", [potentialMatrix |-> pm],
               calculateTouchMatrix(pm))

CallStepMatrix ==
  /\ pc = "idle"
  /\ \E pm \in PotentialMatrices :
       /\ pc' = "done"
       /\ fn' = "calculateStepMatrix"
       /\ args' = [potentialMatrix |-> pm]
       /\ ret' = calculateStepMatrix(pm)
       /\ frame' = IF Len(pm) = 0 THEN NoFrame
                   ELSE [stepMatrix |-> StepGradMatrix(pm, Len(pm[1]))]
       /\ UNCHANGED app

NextField ==
  \/ CallPotentialField
  \/ CallTouchMatrix
  \/ CallStepMatrix
  \/ Return

SpecField == Init /\ [][NextField]_vars

(***************************************************************************)
(* Claims about the potential field and the matrices derived from it.      *)
(***************************************************************************)

\* The (row, column) positions of a rectangular matrix.
CellsOf(m) == {rc \in (1..Len(m)) \X (1..Len(m[1])) : TRUE}

\* A call of calculateStepMatrix on a non-empty rectangular matrix returned.
StepCall ==
  /\ pc = "done" /\ fn = "calculateStepMatrix"
  /\ Len(args.potentialMatrix) > 0
  /\ Len(args.potentialMatrix[1]) > 0

\* Some cell of pm has a gradient above 0: the maximum gradient is not 0.
HasGradient(pm) ==
  \E rc \in CellsOf(pm) : FGt(StepGrad(pm, rc[1], rc[2], Len(pm[1])), Zero)

FieldCall ==
  /\ pc = "done" /\ fn = "calculatePotentialField"
  /\ args.resolution > 0

\* The (row, column) positions of the returned resolution x resolution matrix.
FieldCells == (1..args.resolution) \X (1..args.resolution)

\* C12: calculatePotentialField returns a resolution x resolution matrix
\* whose every cell is in [0, 1]; with at least one source the maximum cell
\* equals exactly 1 and all cells are > 0; with no source the matrix is all
\* zeros; width and height are lx + 2*offset and ly + 2*offset.
C12_FieldNormalized ==
  FieldCall =>
    /\ Len(ret.matrix) = args.resolution
    /\ \A r \in 1..args.resolution : Len(ret.matrix[r]) = args.resolution
    /\ \A rc \in FieldCells :
         /\ FGe(ret.matrix[rc[1]][rc[2]], Zero)
         /\ FLe(ret.matrix[rc[1]][rc[2]], One)
    /\ Len(frame.sources) > 0 =>
         /\ \E rc \in FieldCells : ret.matrix[rc[1]][rc[2]] = One
         /\ \A rc \in FieldCells : FGt(ret.matrix[rc[1]][rc[2]], Zero)
    /\ Len(frame.sources) = 0 =>
         \A rc \in FieldCells : ret.matrix[rc[1]][rc[2]] = Zero
    /\ ret.width = FAdd(args.lx, FMul(Two, args.offset))
    /\ ret.height = FAdd(args.ly, FMul(Two, args.offset))

\* C13: no engine function throws: every call of calculatePotentialField,
\* calculateTouchMatrix and calculateStepMatrix returns a value, also for a
\* zero or negative resolution, an empty potential matrix and zero or one
\* conductor per axis.
C13_NeverThrows ==
  pc = "done" => ret \notin {Thrown("TypeError"), Thrown("RangeError")}

\* max(5, floor(l / 1.5)) + 1 for an integer-valued length l, in integers.
PointsPerLine(l) ==
  (IF (2 * IntOf(l)) \div 3 > 5 THEN (2 * IntOf(l)) \div 3 ELSE 5) + 1

\* The k-th of P + 1 evenly spaced positions from 0 to l.
EvenPosition(k, P, l) == FMul(FDiv(Num(k), Num(P)), l)

\* Sources n+1 .. n+count run from 0 to l along the given axis in even steps.
SpansLine(S, n, count, axis, l) ==
  /\ S[n + 1][axis] = Zero
  /\ S[n + count][axis] = l
  /\ \A k \in 0..(count - 1) : S[n + 1 + k][axis] = EvenPosition(k, count - 1, l)

\* C20: calculatePotentialField discretizes each of the ny horizontal
\* conductors into max(5, floor(lx/1.5)) + 1 and each of the nx vertical
\* conductors into max(5, floor(ly/1.5)) + 1 evenly spaced point sources
\* spanning the conductor end to end, never fewer than 5 per conductor, all
\* at z = -depth with weight 1.0; the grid contributes
\* ny*(max(5,floor(lx/1.5))+1) + nx*(max(5,floor(ly/1.5))+1) sources.
C20_GridSources ==
  (pc = "done" /\ fn = "calculatePotentialField" /\ args.resolution >= 0) =>
    LET H == PointsPerLine(args.lx)
        V == PointsPerLine(args.ly)
        S == frame.sources
    IN /\ H >= 5 /\ V >= 5
       /\ Len(S) = args.ny * H + args.nx * V + 3 * Len(args.rods)
       /\ \A n \in 1..Len(S) :
            IF n <= args.ny * H + args.nx * V
            THEN S[n].weight = One /\ S[n].z = FNeg(args.depth)
            ELSE S[n].weight # One
       /\ \A j \in 0..(args.ny - 1) : SpansLine(S, j * H, H, "x", args.lx)
       /\ \A i \in 0..(args.nx - 1) :
            SpansLine(S, args.ny * H + i * V, V, "y", args.ly)

\* A 9 m x 3 m mesh of 3 x 2 conductors: 2 * 7 + 3 * 6 = 32 grid sources.
C20_Witness ==
  /\ pc = "done" /\ fn = "calculatePotentialField"
  /\ args.lx = Num(9) /\ args.ly = Num(3) /\ args.nx = 3 /\ args.ny = 2
  /\ args.rods = << >> /\ args.resolution = 2
  /\ Len(frame.sources) = 32
  /\ frame.sources[7].x = Num(9) /\ frame.sources[8].x = Zero

(***************************************************************************)
(* groundingMath: geometric factors and mesh voltages.                     *)
(***************************************************************************)

calculateKi(n) == FAdd(Dec(656, 1000), FMul(Dec(172, 1000), n))

\* D <= 0 || h <= 0 || n <= 0, the guard of calculateKm without d <= 0
KmInvalidNoD(D, h, d, n) ==
  FLe(D, Zero) \/ FLe(h, Zero) \/ FLe(n, Zero)

\* D <= 0 || h <= 0 || d <= 0 || n <= 0
KmInvalid(D, h, d, n) ==
  FLe(D, Zero) \/ FLe(h, Zero) \/ FLe(d, Zero) \/ FLe(n, Zero)

\* Kii = hasRods ? 1 : 1 / Math.pow(2 * n, 2 / n)
KmKii(n, hasRods) ==
  IF hasRods THEN One ELSE FDiv(One, FPow(FMul(Two, n), FDiv(Two, n)))

\* ln1 = Math.log(term1 + term2 - term3)
KmLn1(D, h, d) ==
  FLog(FSub(FAdd(FDiv(FMul(D, D), FMul(FMul(Num(16), h), d)),
                 FDiv(FPow(FAdd(D, FMul(Two, h)), Two),
                      FMul(FMul(Num(8), D), d))),
            FDiv(h, FMul(Num(4), d))))

\* ln2 = Math.log(8 / (Math.PI * (2 * n - 1)))
KmLn2(n) == FLog(FDiv(Num(8), FMul(Pi, FSub(FMul(Two, n), One))))

calculateKm(D, h, d, n, hasRods) ==
  IF KmInvalid(D, h, d, n) THEN Zero
  ELSE FMul(FDiv(One, FMul(Two, Pi)),
            FAdd(KmLn1(D, h, d),
                 FMul(FDiv(KmKii(n, hasRods), FSqrt(FAdd(One, h))), KmLn2(n))))

calculateKs(D, h, n) ==
  IF FLe(D, Zero) \/ FLe(h, Zero) \/ FLe(n, Zero) THEN Zero
  ELSE FMul(FDiv(One, Pi),
            FAdd(FAdd(FDiv(One, FMul(Two, h)), FDiv(One, FAdd(D, h))),
                 FMul(FDiv(One, D),
                      FSub(One, FPow(Dec(1, 2), FSub(n, Two))))))

calculateMeshTouchVoltage(rho, Im, Km, Ki, Lt) ==
  IF FLe(Lt, Zero) THEN Zero
  ELSE FDiv(FMul(FMul(FMul(rho, Im), Km), Ki), Lt)

calculateMeshStepVoltage(rho, Im, Ks, Ki, Lt) ==
  IF FLe(Lt, Zero) THEN Zero
  ELSE FDiv(FMul(FMul(FMul(rho, Im), Ks), Ki), Lt)

\* Inputs: spacing D, depth h, conductor diameter d (m), conductor count n
\* (also the fractions for which 2n - 1 <= 0), soil resistivity, mesh
\* current (A), factors and total length.
MeshD   == {Num(5), Zero, Num(0 - 1), NaN}
MeshH   == {Dec(1, 2), Zero, NaN}
MeshDia == {Dec(798, 100000), Zero, Num(0 - 1)}
MeshN   == {Num(10), Num(2), Dec(1, 2), Dec(1, 4), Zero, Num(0 - 2), NaN}
MeshRho == {Num(100), Zero}
MeshIm  == {Num(1000), Num(0 - 1)}
MeshK   == {Dec(7, 10), Zero, NaN}
MeshKi  == {Dec(2376, 1000)}
MeshLt  == {Num(890), Zero, Num(0 - 1), NaN, PosInf}

CallKi ==
  /\ pc = "idle"
  /\ \E n \in MeshN : Returns("calculateKi", [n |-> n], calculateKi(n))

CallKm ==
  /\ pc = "idle"
  /\ \E D \in MeshD, h \in MeshH, d \in MeshDia, n \in MeshN,
        hasRods \in BOOLEAN :
       Returns("calculateKm",
               [D |-> D, h |-> h, d |-> d, n |-> n, hasRods |-> hasRods],
               calculateKm(D, h, d, n, hasRods))

CallKs ==
  /\ pc = "idle"
  /\ \E D \in MeshD, h \in MeshH, n \in MeshN :
       Returns("calculateKs", [D |-> D, h |-> h, n |-> n],
               calculateKs(D, h, n))

CallMeshTouchVoltage ==
  /\ pc = "idle"
  /\ \E rho \in MeshRho, Im \in MeshIm, Km \in MeshK, Ki \in MeshKi,
        Lt \in MeshLt :
       Returns("calculateMeshTouchVoltage",
               [rho |-> rho, Im |-> Im, K |-> Km, Ki |-> Ki, Lt |-> Lt],
               calculateMeshTouchVoltage(rho, Im, Km, Ki, Lt))

CallMeshStepVoltage ==
  /\ pc = "idle"
  /\ \E rho \in MeshRho, Im \in MeshIm, Ks \in MeshK, Ki \in MeshKi,
        Lt \in MeshLt :
       Returns("calculateMeshStepVoltage",
               [rho |-> rho, Im |-> Im, K |-> Ks, Ki |-> Ki, Lt |-> Lt],
               calculateMeshStepVoltage(rho, Im, Ks, Ki, Lt))

NextMesh ==
  \/ CallKi
  \/ CallKm
  \/ CallKs
  \/ CallMeshTouchVoltage
  \/ CallMeshStepVoltage
  \/ Return

SpecMesh == Init /\ [][NextMesh]_vars

\* Every scalar formula of groundingMath that can meet a logarithm or a
\* division: grid resistance, conductor sizing, geometric factors.
NextFormulas ==
  \/ NextGrid
  \/ NextConductor
  \/ NextMesh

SpecFormulas == Init /\ [][NextFormulas]_vars

(***************************************************************************)
(* Claims about the geometric factors and about degenerate arguments.      *)
(***************************************************************************)

\* Every numeric argument of the current call is finite.
FiniteArgs ==
  \A f \in DOMAIN args :
    IF f = "hasRods" THEN TRUE
    ELSE IF f = "rods"
    THEN (HasRods(args.rods) =>
            /\ IsFin(args.rods.count) /\ IsFin(args.rods.length)
            /\ IsFin(args.rods.diameter_mm))
    ELSE IsFin(args[f])

\* Every number of the returned value is finite.
FiniteResult ==
  IF fn = "calculateSchwarzResistance"
  THEN \A f \in DOMAIN ret : IsFin(ret[f])
  ELSE IsFin(ret)

\* C14: for finite inputs no formula returns NaN or Infinity: where a
\* logarithm argument would be zero or negative or a denominator zero
\* (calculateKf / calculateConductorSection with Ko + ta <= 0, calculateKm
\* with 2n - 1 <= 0, calculateSchwarzResistance with a non-positive rod
\* radius or a zero combination denominator) the safe substitute is returned.
C14_NoNaNOrInfinity ==
  (pc = "done" /\ FiniteArgs) => FiniteResult

\* C18: calculateKm returns 0 if any of D, h, d, n is <= 0; calculateKs
\* returns 0 if any of D, h, n is <= 0; calculateMeshTouchVoltage and
\* calculateMeshStepVoltage return 0 if Lt <= 0 and rho*Im*K*Ki/Lt otherwise.
C18_ZeroOnInvalidGeometry ==
  pc = "done" =>
    /\ (fn = "calculateKm"
          /\ (\/ FLe(args.D, Zero) \/ FLe(args.h, Zero)
              \/ FLe(args.d, Zero) \/ FLe(args.n, Zero)))
         => ret = Zero
    /\ (fn = "calculateKs"
          /\ (FLe(args.D, Zero) \/ FLe(args.h, Zero) \/ FLe(args.n, Zero)))
         => ret = Zero
    /\ fn \in {"calculateMeshTouchVoltage", "calculateMeshStepVoltage"}
         => ret = IF FLe(args.Lt, Zero) THEN Zero
                  ELSE FDiv(FMul(FMul(FMul(args.rho, args.Im), args.K),
                                 args.Ki),
                            args.Lt)

\* calculateKm with a valid spacing, depth and count but a zero diameter.
C18_Witness ==
  /\ pc = "done" /\ fn = "calculateKm"
  /\ args.D = Num(5) /\ args.h = Dec(1, 2) /\ args.n = Num(10)
  /\ args.d = Zero
  /\ ret = Zero

(***************************************************************************)
(* The curve selection of calculateSchwarzResistance on its own: the       *)
(* coefficients k1_m, k1_b, k2_m, k2_b chosen for an area and a depth.     *)
(***************************************************************************)

\* h_sqrtA = h / Math.sqrt(A)
RelativeDepth(A, h) == FDiv(h, FSqrt(A))

CurveA == {Num(2000), Num(400), Num(100), Num(36), Num(25), Num(16), Num(9),
           Num(4), One, Dec(1, 4), Zero, Num(0 - 4), NaN}
CurveH == {Num(3), Num(2), One, Dec(6, 10), Dec(1, 2), Dec(3, 10),
           Dec(1, 4), Dec(2, 10), Dec(1, 10), Dec(5, 100), Zero,
           Num(0 - 1), NaN}

CallSchwarzCoef ==
  /\ pc = "idle"
  /\ \E A \in CurveA, h \in CurveH :
       Returns("SchwarzCoef", [A |-> A, h |-> h],
               SchwarzCoef(RelativeDepth(A, h)))

NextCurve ==
  \/ CallSchwarzCoef
  \/ Return

SpecCurve == Init /\ [][NextCurve]_vars

\* v lies between a and b, whichever is larger.
Between(v, a, b) == FLe(FMin(a, b), v) /\ FLe(v, FMax(a, b))

CoefBetween(k, c1, c2) ==
  /\ Between(k.k1_m, c1.k1.m, c2.k1.m)
  /\ Between(k.k1_b, c1.k1.b, c2.k1.b)
  /\ Between(k.k2_m, c1.k2.m, c2.k2.m)
  /\ Between(k.k2_b, c1.k2.b, c2.k2.b)

CurveX == RelativeDepth(args.A, args.h)

\* C19: with x = h / sqrt(A): x <= 0 selects curve A, x >= 1/6 curve C,
\* 0 < x <= 0.1 interpolates between A and B and 0.1 < x < 1/6 between B and
\* C; x = 0.1 yields exactly curve B, and every interpolated coefficient
\* lies between the values of the two adjacent curves.
C19_CurveSelection ==
  (pc = "done" /\ fn = "SchwarzCoef") =>
    /\ FLe(CurveX, Zero) => ret = CurveCoef(curves[1])
    /\ FGe(CurveX, curves[3].h_ref) => ret = CurveCoef(curves[3])
    /\ CurveX = Dec(1, 10) => ret = CurveCoef(curves[2])
    /\ (FGt(CurveX, Zero) /\ FLe(CurveX, Dec(1, 10)))
         => CoefBetween(ret, curves[1], curves[2])
    /\ (FGt(CurveX, Dec(1, 10)) /\ FLt(CurveX, curves[3].h_ref))
         => CoefBetween(ret, curves[2], curves[3])

\* A call at the breakpoint x = 0.1 (A = 100, h = 1) that returned curve B.
C19_Witness ==
  /\ pc = "done" /\ fn = "SchwarzCoef"
  /\ args.A = Num(100) /\ args.h = One
  /\ CurveX = Dec(1, 10)
  /\ ret = CurveCoef(curves[2])

(***************************************************************************)
(* Claims about the tolerable body current.                                *)
(***************************************************************************)

BodyCurrentCall == pc = "done" /\ fn = "calculateTolerableBodyCurrent"

\* The duration class calculatePermissibleVoltages reports for the same t
\* and body weight is the one of the returned body current, whatever the
\* surface layer.
SameDurationClass ==
  \A cs \in VoltCs, rho_s \in VoltRhoS :
    calculatePermissibleVoltages(args.t, cs, rho_s, args.bodyWeight).duration
      = ret.duration

\* ib and duration by the three ranges of t.
BodyCurrentByRange ==
  /\ (~IsFin(args.t) \/ FLe(args.t, Zero)) => ret.ib = Null
  /\ (IsFin(args.t) /\ FGt(args.t, Zero) /\ FLe(args.t, Num(3)))
       => /\ ret.ib = FDiv(IF args.bodyWeight = "50" THEN Dec(116, 1000)
                                                     ELSE Dec(157, 1000),
                           FSqrt(args.t))
          /\ ret.duration = "curta"
  /\ (IsFin(args.t) /\ FGt(args.t, Num(3)))
       => ret.ib = Dec(6, 1000) /\ ret.duration = "longa"

\* C17 as stated: calculateTolerableBodyCurrent returns ib = null when t is
\* non-finite or <= 0, k / sqrt(t) and 'curta' for 0 < t <= 3, 0.006 and
\* 'longa' for t > 3, and its duration class agrees with
\* calculatePermissibleVoltages for every t > 0.
C17_AgreesForAllPositive ==
  BodyCurrentCall =>
    /\ BodyCurrentByRange
    /\ FGt(args.t, Zero) => SameDurationClass

\* C17 amended: the same returned values, and the duration class agrees
\* with calculatePermissibleVoltages for every finite t > 0.
C17_BodyCurrent ==
  BodyCurrentCall =>
    /\ BodyCurrentByRange
    /\ (IsFin(args.t) /\ FGt(args.t, Zero)) => SameDurationClass

\* A call with t = 5 s: the fixed current, 'longa', as the voltages report.
C17_Witness ==
  /\ BodyCurrentCall
  /\ args.t = Num(5)
  /\ ret = [ib |-> Dec(6, 1000), duration |-> "longa"]
  /\ SameDurationClass

(***************************************************************************)
(* App: the wizard's state, its input handlers and the effect that         *)
(* recomputes the apparent resistivity.                                    *)
(***************************************************************************)

\* The texts typed in the model, as digits over a power of ten: the decimal
\* comma has been replaced by a point.
Digits(value) ==
  CASE value = "100" -> 100
    [] value = "300" -> 300
    [] value = "50"  -> 50
    [] value = "40"  -> 40
    [] value = "10"  -> 10
    [] value = "11"  -> 11
    [] value = "9"   -> 9
    [] value = "2"   -> 2
    [] value = "2,5" -> 25
    [] value = "0"   -> 0
    [] value = "5"   -> 5
    [] value = "30"  -> 30
    [] value = "60"  -> 60
    [] value = "700" -> 700
    [] value = "3000" -> 3000
    [] value = "0,1" -> 1
    [] value = "0,2" -> 2
    [] value = "0,25" -> 25
    [] value = "0,5" -> 5
    [] value = "2,4" -> 24
    [] value = "7,98" -> 798
    [] value = "12,7" -> 127
    [] OTHER         -> 0 - 1

Scale(value) ==
  CASE value \in {"2,5", "0,1", "0,2", "0,5", "2,4", "12,7"} -> 10
    [] value \in {"0,25", "7,98"} -> 100
    [] OTHER -> 1

\* Number(text): NaN for a text that is not a number
NumberOf(value) ==
  IF Digits(value) < 0 THEN NaN ELSE Dec(Digits(value), Scale(value))

\* parseNumberBR: NaN for an empty text
parseNumberBR(value) == IF value = "" THEN NaN ELSE NumberOf(value)

\* parseInt(text) || 2, the conductor count the mesh editor draws
CountOr2(value) ==
  IF Falsy(FFloor(parseNumberBR(value))) THEN 2
  ELSE IntOf(FFloor(parseNumberBR(value)))

getMeshArea(a) ==
  IF IsNaN(parseNumberBR(a.meshLx)) \/ IsNaN(parseNumberBR(a.meshLy))
  THEN Zero
  ELSE FMul(parseNumberBR(a.meshLx), parseNumberBR(a.meshLy))

calculateEquivalentRadius(area) ==
  IF FLe(area, Zero) THEN Zero ELSE FSqrt(FDiv(area, Pi))

\* The locals of calculateN when its loop ends.
RECURSIVE SeriesEnd(_)
SeriesEnd(fr) ==
  IF LoopCond(fr) THEN SeriesEnd(NextFrame(fr, Term(fr.k, fr.n, fr.alpha)))
  ELSE fr

\* The value calculateN returns.
SeriesN(kk, al) ==
  IF FEq(al, Zero) THEN One
  ELSE FAdd(One,
            FMul(Two, SeriesEnd([k |-> kk, alpha |-> al, n |-> 1,
                                 term |-> One, sum |-> Zero]).sum))

\* The value calculateApparentResistivity returns.
ApparentResistivityOf(rho1, rho2, h1, r) ==
  IF IsHomogeneous(rho1, rho2, h1) THEN rho1
  ELSE FMul(SeriesN(calculateReflectionK(rho1, rho2), FDiv(r, h1)), rho1)

\* calculateRhoA: the state after its setApparentRho, if any.
calculateRhoA(a) ==
  IF a.soilType = "homogeneous"
  THEN IF ~IsNaN(parseNumberBR(a.rho1))
       THEN [a EXCEPT !.apparentRho = parseNumberBR(a.rho1)]
       ELSE a
  ELSE IF \/ IsNaN(parseNumberBR(a.rho1)) \/ IsNaN(parseNumberBR(a.rho2))
          \/ IsNaN(parseNumberBR(a.layerDepth)) \/ IsNaN(getMeshArea(a))
  THEN [a EXCEPT !.apparentRho = Null]
  ELSE [a EXCEPT !.apparentRho =
          ApparentResistivityOf(parseNumberBR(a.rho1), parseNumberBR(a.rho2),
                                parseNumberBR(a.layerDepth),
                                calculateEquivalentRadius(getMeshArea(a)))]

\* The effect on [rho1, rho2, layerDepth, meshLx, meshLy, soilType], run
\* after a render in which one of them changed.
RhoEffect(a) == IF a.activeStep = 1 THEN calculateRhoA(a) ELSE a

(***************************************************************************)
(* The wizard's derived values: mesh current, conductor length, the three  *)
(* grid resistances, the permissible-voltage effect and the safety verdict *)
(* of steps 6 and 7 (App.tsx).                                             *)
(***************************************************************************)

\* a || b on a value that is null or a number
OrElse(a, b) == IF a = Null THEN b ELSE IF Falsy(a) THEN b ELSE a

\* The value of a const declaration: the one element of a singleton
Const(S) == CHOOSE v \in S : TRUE

\* parseInt of a count text
ParseCount(value) == FFloor(parseNumberBR(value))

\* icc * (factor / 100), null while one of them is not a number
MeshCurrentOf(icc, factor) ==
  IF IsNaN(icc) \/ IsNaN(factor) THEN Null
  ELSE FMul(icc, FDiv(factor, Num(100)))

\* Mesh current Im in kA
getMeshCurrent(a) ==
  MeshCurrentOf(parseNumberBR(a.shortCircuitCurrent),
                parseNumberBR(a.currentDivisionFactor))

\* (nx * ly) + (ny * lx), 0 while one of them is not a number
TotalLengthOf(lx, ly, nx, ny) ==
  IF IsNaN(lx) \/ IsNaN(ly) \/ IsNaN(nx) \/ IsNaN(ny) THEN Zero
  ELSE FAdd(FMul(nx, ly), FMul(ny, lx))

getTotalLength(a) ==
  TotalLengthOf(parseNumberBR(a.meshLx), parseNumberBR(a.meshLy),
                parseNumberBR(a.meshNx), parseNumberBR(a.meshNy))

\* apparentRho || parseNumberBR(rho1)
RhoOrRho1(a) == OrElse(a.apparentRho, parseNumberBR(a.rho1))

\* Method A on the mesh's area, length and resistivity, null without them
PreliminaryA(rho, area, lt) ==
  IF FLe(area, Zero) \/ FLe(lt, Zero) \/ Falsy(rho) \/ FLe(rho, Zero)
  THEN Null
  ELSE calculatePreliminaryResistanceA(rho, area, lt)

getPreliminaryResistanceA(a) ==
  Const({PreliminaryA(rho, area, lt) :
           rho \in {RhoOrRho1(a)}, area \in {getMeshArea(a)},
           lt \in {getTotalLength(a)}})

\* Method B, null also without a positive depth
PreliminaryB(rho, area, lt, h) ==
  IF \/ FLe(area, Zero) \/ FLe(lt, Zero) \/ Falsy(rho) \/ FLe(rho, Zero)
     \/ Falsy(h) \/ FLe(h, Zero)
  THEN Null
  ELSE calculatePreliminaryResistanceB(rho, area, lt, h)

getPreliminaryResistanceBValue(a) ==
  Const({PreliminaryB(rho, area, lt, h) :
           rho \in {RhoOrRho1(a)}, area \in {getMeshArea(a)},
           lt \in {getTotalLength(a)}, h \in {parseNumberBR(a.meshDepth)}})

\* The conductor diameter in mm from its section in mm2
GaugeDiameter(gauge) ==
  IF FGt(gauge, Zero) THEN FMul(Two, FSqrt(FDiv(gauge, Pi))) ELSE Zero

\* rL > 0 ? rL : 2.4 and rD > 0 ? rD : 12.7
PositiveOr(v, default) == IF FGt(v, Zero) THEN v ELSE default

\* The rods handed to the Schwarz formula
RodsData(a) ==
  [count |-> Num(Len(a.meshRods)),
   length |-> PositiveOr(parseNumberBR(a.rodLength), Dec(24, 10)),
   diameter_mm |-> PositiveOr(parseNumberBR(a.rodDiameter), Dec(127, 10))]

\* The Schwarz resistance of a mesh with every input positive, else null
IEEE80Of(rho, area, lx, ly, lt, h, d_mm, rods) ==
  IF /\ FGt(area, Zero) /\ FGt(lt, Zero) /\ FGt(h, Zero) /\ FGt(rho, Zero)
     /\ FGt(d_mm, Zero) /\ FGt(lx, Zero) /\ FGt(ly, Zero)
  THEN calculateSchwarzResistance(rho, area, lx, ly, lt, h, d_mm, rods)
  ELSE Null

getIEEE80Resistance(a) ==
  Const({IEEE80Of(rho, area, lx, ly, lt, h, d_mm, rods) :
           rho \in {RhoOrRho1(a)}, area \in {getMeshArea(a)},
           lx \in {parseNumberBR(a.meshLx)},
           ly \in {parseNumberBR(a.meshLy)}, lt \in {getTotalLength(a)},
           h \in {parseNumberBR(a.meshDepth)},
           d_mm \in {GaugeDiameter(parseNumberBR(a.meshGauge))},
           rods \in {RodsData(a)}})

\* r?.resistance, undefined (NaN here) on null
ResistanceOf(r) == IF r = Null THEN NaN ELSE r.resistance

\* rho_s and cs of the permissible-voltage effect
SurfaceOf(hasSurfaceLayer, rho, rs, hs) ==
  IF hasSurfaceLayer /\ ~IsNaN(rs) /\ ~IsNaN(hs)
  THEN [rho_s |-> rs, cs |-> calculateDeratingFactor(rho, rs, hs)]
  ELSE [rho_s |-> rho, cs |-> One]

\* The permissible voltages, or three nulls while the fault time is not a
\* positive number
ResultsOf(t, surface, bodyWeight) ==
  IF IsNaN(t) \/ FLe(t, Zero)
  THEN [vPasso |-> Null, vToque |-> Null, duration |-> Null]
  ELSE calculatePermissibleVoltages(t, surface.cs, surface.rho_s, bodyWeight)

\* The effect on [time, hasSurfaceLayer, surfaceLayerResistivity,
\* surfaceLayerThickness, bodyWeight, apparentRho, rho1]
ResultsEffect(a) ==
  [a EXCEPT !.results =
     Const({ResultsOf(t, Const({SurfaceOf(a.hasSurfaceLayer, rho, rs, hs) :
                                  rs \in {parseNumberBR(
                                            a.surfaceLayerResistivity)},
                                  hs \in {parseNumberBR(
                                            a.surfaceLayerThickness)}}),
                      a.bodyWeight) :
              rho \in {OrElse(RhoOrRho1(a), Num(100))},
              t \in {parseNumberBR(a.time)}})]

\* The NBR rule with the threshold excluded from Method A.
NBRResistanceStrict(a, h) ==
  IF FLt(h, Dec(25, 100)) THEN getPreliminaryResistanceA(a)
  ELSE getPreliminaryResistanceBValue(a)

\* The NBR 15751 preliminary resistance of step 7 for the depth h: Method A
\* for a depth of at most 0.25 m, Method B otherwise.
NBRResistance(a, h) ==
  IF FLe(h, Dec(25, 100)) THEN getPreliminaryResistanceA(a)
  ELSE getPreliminaryResistanceBValue(a)

\* const resistance of step 7 (report)
Step7Resistance(a) ==
  IF a.selectedResistanceMethod = "NBR"
  THEN NBRResistance(a, parseNumberBR(a.meshDepth))
  ELSE ResistanceOf(getIEEE80Resistance(a))

\* The choice of step 6 between the three resistances
Step6Choice(method, h, resistanceA, resistanceB, ieee80) ==
  IF method = "NBR"
  THEN (IF FLe(h, Dec(25, 100)) THEN resistanceA ELSE resistanceB)
  ELSE ResistanceOf(ieee80)

\* const resistance of step 6 (verification)
Step6Resistance(a) ==
  Step6Choice(a.selectedResistanceMethod, parseNumberBR(a.meshDepth),
              getPreliminaryResistanceA(a), getPreliminaryResistanceBValue(a),
              getIEEE80Resistance(a))

\* n = Lc / (Lp / 2), 1 without a valid geometry
VerdictN(lx, ly, nx, ny) ==
  IF FGt(lx, Zero) /\ FGt(ly, Zero) /\ FGt(nx, Zero) /\ FGt(ny, Zero)
  THEN FDiv(FAdd(FMul(nx, ly), FMul(ny, lx)),
            FDiv(FMul(Two, FAdd(lx, ly)), Two))
  ELSE One

\* D = (dx + dy) / 2, 0 with fewer than two conductors in a direction
MeshSpacing(lx, ly, nx, ny) ==
  IF FGt(nx, One) /\ FGt(ny, One)
  THEN FDiv(FAdd(FDiv(lx, FSub(nx, One)), FDiv(ly, FSub(ny, One))), Two)
  ELSE Zero

\* n and D of the mesh lx by ly with nx by ny conductors
Geometry(lx, ly, nx, ny) ==
  [n |-> VerdictN(lx, ly, nx, ny), D |-> MeshSpacing(lx, ly, nx, ny)]

\* The locals of the verdict: n, D, h, d (m), rho, Im in kA and in A, Lt
Locals(geometry, h, d_mm, rho, im_kA, lt) ==
  [n |-> geometry.n, D |-> geometry.D, h |-> h,
   d |-> FDiv(d_mm, Num(1000)), rho |-> rho, im_kA |-> im_kA,
   im |-> FMul(im_kA, Num(1000)), lt |-> lt]

VerdictInputs(a) ==
  Const({Locals(Geometry(lx, ly, nx, ny), h, d_mm, rho, im_kA, lt) :
           lx \in {parseNumberBR(a.meshLx)},
           ly \in {parseNumberBR(a.meshLy)},
           nx \in {ParseCount(a.meshNx)}, ny \in {ParseCount(a.meshNy)},
           h \in {parseNumberBR(a.meshDepth)},
           d_mm \in {parseNumberBR(a.meshD)},
           rho \in {OrElse(RhoOrRho1(a), Num(100))},
           im_kA \in {OrElse(getMeshCurrent(a), Zero)},
           lt \in {getTotalLength(a)}})

\* vMeshTouch and vMeshStep from Km, Ks and Ki (1 with perimeter rods)
MeshVoltages(in, km, ks, ki) ==
  [vMeshTouch |-> calculateMeshTouchVoltage(in.rho, in.im, km, ki, in.lt),
   vMeshStep |-> calculateMeshStepVoltage(in.rho, in.im, ks, ki, in.lt)]

MeshVoltagesOf(hasPerimeterRods, in) ==
  Const({MeshVoltages(in, km, ks, ki) :
           km \in {calculateKm(in.D, in.h, in.d, in.n, hasPerimeterRods)},
           ks \in {calculateKs(in.D, in.h, in.n)},
           ki \in {IF hasPerimeterRods THEN One ELSE calculateKi(in.n)}})

\* gpr = (resistance && im_kA) ? resistance * im : null
GprOf(resistance, in) ==
  IF resistance = Null THEN Null
  ELSE IF Falsy(resistance) \/ Falsy(in.im_kA) THEN Null
  ELSE FMul(resistance, in.im)

\* isSafe = isGPRSafe || (isTouchSafe && isStepSafe)
Verdict(resistance, gpr, mesh, isGPRSafe, isTouchSafe, isStepSafe) ==
  [resistance |-> resistance, gpr |-> gpr,
   vMeshTouch |-> mesh.vMeshTouch, vMeshStep |-> mesh.vMeshStep,
   isGPRSafe |-> isGPRSafe, isTouchSafe |-> isTouchSafe,
   isStepSafe |-> isStepSafe,
   isSafe |-> isGPRSafe \/ (isTouchSafe /\ isStepSafe)]

\* The three comparisons with the permissible voltages
Compared(results, resistance, gpr, mesh) ==
  Verdict(resistance, gpr, mesh,
          IF gpr # Null /\ results.vToque # Null
          THEN FLt(gpr, results.vToque) ELSE FALSE,
          IF results.vToque # Null
          THEN FLt(mesh.vMeshTouch, results.vToque) ELSE FALSE,
          IF results.vPasso # Null
          THEN FLt(mesh.vMeshStep, results.vPasso) ELSE FALSE)

VerdictFrom(a, resistance, in) ==
  Const({Compared(a.results, resistance, gpr, mesh) :
           gpr \in {GprOf(resistance, in)},
           mesh \in {MeshVoltagesOf(a.hasPerimeterRods, in)}})

VerdictOf(a, resistance) ==
  Const({VerdictFrom(a, r, in) :
           r \in {resistance}, in \in {VerdictInputs(a)}})

\* The update of meshRods that appends the node whether it is stored or not.
ToggledAppend(rods, i, j) == Append(rods, [i |-> i, j |-> j])

\* toggleRod's update of meshRods without a limit on the number of rods
ToggledAny(rods, i, j) ==
  IF \E n \in 1..Len(rods) : rods[n] = [i |-> i, j |-> j]
  THEN SelectSeq(rods, LAMBDA r : r # [i |-> i, j |-> j])
  ELSE Append(rods, [i |-> i, j |-> j])

\* The texts typed into the inputs, the wizard steps visited and the nodes
\* clicked (the corners of the drawn grid); at most MaxRods rods are placed.
MaxRods == 2
WizardSteps == 1..7
SoilTypes == {"homogeneous", "2-layer"}
RhoTexts == {"", "100", "300"}
DepthTexts == {"", "2"}
SideTexts == {"", "10", "50", "40"}
CountTexts == {"", "2", "11", "9"}
CornerNodes(nx, ny) == {0, nx - 1} \X {0, ny - 1}

AppIdle == pc = "idle" /\ UNCHANGED <<pc, fn, args, ret, frame>>

setActiveStep ==
  /\ AppIdle
  /\ \E step \in WizardSteps \ {app.activeStep} :
       app' = [app EXCEPT !.activeStep = step]

\* An input of step 1 (soil model), followed by the effect.
setSoilType ==
  /\ AppIdle /\ app.activeStep = 1
  /\ \E v \in SoilTypes \ {app.soilType} :
       app' = RhoEffect([app EXCEPT !.soilType = v])

setRho1 ==
  /\ AppIdle /\ app.activeStep = 1
  /\ \E v \in RhoTexts \ {app.rho1} :
       app' = ResultsEffect(RhoEffect([app EXCEPT !.rho1 = v]))

setRho2 ==
  /\ AppIdle /\ app.activeStep = 1 /\ app.soilType = "2-layer"
  /\ \E v \in RhoTexts \ {app.rho2} :
       app' = RhoEffect([app EXCEPT !.rho2 = v])

setLayerDepth ==
  /\ AppIdle /\ app.activeStep = 1 /\ app.soilType = "2-layer"
  /\ \E v \in DepthTexts \ {app.layerDepth} :
       app' = RhoEffect([app EXCEPT !.layerDepth = v])

\* An input of step 2 (mesh geometry), followed by the effect.
setMeshLx ==
  /\ AppIdle /\ app.activeStep = 2
  /\ \E v \in SideTexts \ {app.meshLx} :
       app' = RhoEffect([app EXCEPT !.meshLx = v])

setMeshLy ==
  /\ AppIdle /\ app.activeStep = 2
  /\ \E v \in SideTexts \ {app.meshLy} :
       app' = RhoEffect([app EXCEPT !.meshLy = v])

setMeshNx ==
  /\ AppIdle /\ app.activeStep = 2
  /\ \E v \in CountTexts \ {app.meshNx} :
       app' = [app EXCEPT !.meshNx = v]

setMeshNy ==
  /\ AppIdle /\ app.activeStep = 2
  /\ \E v \in CountTexts \ {app.meshNy} :
       app' = [app EXCEPT !.meshNy = v]

\* A click on a node of the grid drawn in step 2.
toggleRod ==
  /\ AppIdle /\ app.activeStep = 2
  /\ FGt(parseNumberBR(app.meshLx), Zero)
  /\ FGt(parseNumberBR(app.meshLy), Zero)
  /\ \E node \in CornerNodes(CountOr2(app.meshNx), CountOr2(app.meshNy)) :
       /\ Len(ToggledAny(app.meshRods, node[1], node[2])) <= MaxRods
       /\ app' = [app EXCEPT
                    !.meshRods = ToggledAny(app.meshRods, node[1], node[2])]

(***************************************************************************)
(* Conductor sizing of step 4 and of the step 7 report (App.tsx), with the *)
(* materials and connections of utils/conductorData.ts that the model's    *)
(* selects offer.                                                          *)
(***************************************************************************)

\* conductorMaterials.find(m => m.id === id)
MaterialOf(id) ==
  CASE id = "copper_soft" ->
         [alpha20 |-> Dec(393, 100000), tFusion |-> Num(1083),
          rho20 |-> Dec(1724, 1000), tcap |-> Dec(3422, 1000)]
    [] id = "aluminum_wire" ->
         [alpha20 |-> Dec(403, 100000), tFusion |-> Num(657),
          rho20 |-> Dec(2862, 1000), tcap |-> Dec(2556, 1000)]

\* connectionTypes.find(c => c.id === id)
ConnectionOf(id) ==
  CASE id = "mechanical" -> [maxTemp |-> Num(250)]
    [] id = "exothermic" -> [maxTemp |-> Num(850)]

\* Im (mesh) or Icc (total), as chosen by the checkbox
CurrentForSizing(a) ==
  IF a.useTotalCurrentForSizing
  THEN parseNumberBR(a.shortCircuitCurrent)
  ELSE getMeshCurrent(a)

\* currentForSizing && currentForSizing > 0
HasSizingCurrent(a) ==
  IF CurrentForSizing(a) = Null THEN FALSE
  ELSE ~Falsy(CurrentForSizing(a)) /\ FGt(CurrentForSizing(a), Zero)

\* tm = Math.min(connection.maxTemp, material.tFusion)
SizingTm(a) ==
  FMin(ConnectionOf(a.selectedConnectionId).maxTemp,
       MaterialOf(a.selectedMaterialId).tFusion)

\* calculatedKf of the selected material between ta and tm
SizingKf(a) ==
  Const({calculateKf(material.alpha20, material.rho20, material.tcap, tm, ta) :
           material \in {MaterialOf(a.selectedMaterialId)},
           tm \in {SizingTm(a)}, ta \in {parseNumberBR(a.ambientTemp)}})

\* S = If * Kf * sqrt(t)
SizingSection(a) ==
  Const({FMul(FMul(current, kf), FSqrt(t)) :
           current \in {CurrentForSizing(a)}, kf \in {SizingKf(a)},
           t \in {parseNumberBR(a.time)}})

\* minSection of step 4
Step4MinSection(a) ==
  IF /\ FGt(parseNumberBR(a.time), Zero)
     /\ FLt(parseNumberBR(a.ambientTemp),
            ConnectionOf(a.selectedConnectionId).maxTemp)
     /\ HasSizingCurrent(a)
  THEN SizingSection(a)
  ELSE Zero

\* minSection of the step 7 report
Step7MinSection(a) ==
  IF FGt(parseNumberBR(a.time), Zero) /\ HasSizingCurrent(a)
  THEN SizingSection(a)
  ELSE Zero

\* What step 4 (sizing) shows
Step4View(a) == [minSection |-> Step4MinSection(a)]

\* What step 7 (report) shows
Step7View(a) ==
  [verdict |-> VerdictOf(a, Step7Resistance(a)),
   minSection |-> Step7MinSection(a)]

\* What step 6 (verification) shows
Step6View(a) == [verdict |-> VerdictOf(a, Step6Resistance(a))]

\* Texts typed in steps 2 to 4 and the options of their selects.
MeshDepthTexts == {"0,5", "0,25", "0,2", ""}
ResistanceMethods == {"NBR", "IEEE"}
CurrentTexts == {"", "10", "0"}
FactorTexts == {"", "60"}
TimeTexts == {"", "0,5", "5", "0"}
AmbientTexts == {"30", "", "300", "700"}
MaterialIds == {"copper_soft", "aluminum_wire"}
ConnectionIds == {"exothermic", "mechanical"}

\* Inputs of step 2 (mesh geometry and resistance method).
setMeshDepth ==
  /\ AppIdle /\ app.activeStep = 2
  /\ \E v \in MeshDepthTexts \ {app.meshDepth} :
       app' = [app EXCEPT !.meshDepth = v]

setSelectedResistanceMethod ==
  /\ AppIdle /\ app.activeStep = 2
  /\ \E v \in ResistanceMethods \ {app.selectedResistanceMethod} :
       app' = [app EXCEPT !.selectedResistanceMethod = v]

\* Inputs of step 3 (fault current and time); the fault time is followed by
\* the permissible-voltage effect.
setShortCircuitCurrent ==
  /\ AppIdle /\ app.activeStep = 3
  /\ \E v \in CurrentTexts \ {app.shortCircuitCurrent} :
       app' = [app EXCEPT !.shortCircuitCurrent = v]

setCurrentDivisionFactor ==
  /\ AppIdle /\ app.activeStep = 3
  /\ \E v \in FactorTexts \ {app.currentDivisionFactor} :
       app' = [app EXCEPT !.currentDivisionFactor = v]

setTime ==
  /\ AppIdle /\ app.activeStep = 3
  /\ \E v \in TimeTexts \ {app.time} :
       app' = ResultsEffect([app EXCEPT !.time = v])

\* Inputs of step 4 (conductor sizing).
setSelectedMaterialId ==
  /\ AppIdle /\ app.activeStep = 4
  /\ \E v \in MaterialIds \ {app.selectedMaterialId} :
       app' = [app EXCEPT !.selectedMaterialId = v]

setSelectedConnectionId ==
  /\ AppIdle /\ app.activeStep = 4
  /\ \E v \in ConnectionIds \ {app.selectedConnectionId} :
       app' = [app EXCEPT !.selectedConnectionId = v]

setAmbientTemp ==
  /\ AppIdle /\ app.activeStep = 4
  /\ \E v \in AmbientTexts \ {app.ambientTemp} :
       app' = [app EXCEPT !.ambientTemp = v]

setUseTotalCurrentForSizing ==
  /\ AppIdle /\ app.activeStep = 4
  /\ app' = [app EXCEPT !.useTotalCurrentForSizing = ~@]

\* renderStepContent for the active step: what the step's panel shows.
renderStep4 ==
  /\ app.activeStep = 4
  /\ Returns("renderStepContent", [activeStep |-> 4], Step4View(app))

renderStep6 ==
  /\ app.activeStep = 6
  /\ Returns("renderStepContent", [activeStep |-> 6], Step6View(app))

renderStep7 ==
  /\ app.activeStep = 7
  /\ Returns("renderStepContent", [activeStep |-> 7], Step7View(app))

\* The safety verification: soil, depth, method, current and time, and the
\* panels of steps 6 and 7.
NextVerdict ==
  \/ setActiveStep
  \/ setRho1
  \/ setMeshDepth
  \/ setSelectedResistanceMethod
  \/ setShortCircuitCurrent
  \/ setCurrentDivisionFactor
  \/ setTime
  \/ renderStep6
  \/ renderStep7
  \/ Return

SpecVerdict == Init /\ [][NextVerdict]_vars

\* The conductor sizing: current, time, material, connection and ambient
\* temperature, and the panels of steps 4 and 7.
NextSizing ==
  \/ setActiveStep
  \/ setShortCircuitCurrent
  \/ setCurrentDivisionFactor
  \/ setTime
  \/ setSelectedMaterialId
  \/ setSelectedConnectionId
  \/ setAmbientTemp
  \/ setUseTotalCurrentForSizing
  \/ renderStep4
  \/ renderStep7
  \/ Return

SpecSizing == Init /\ [][NextSizing]_vars

\* The mesh editor: conductor counts and rods.
NextRods ==
  \/ setActiveStep
  \/ setMeshNx
  \/ setMeshNy
  \/ toggleRod

SpecRods == Init /\ [][NextRods]_vars

\* The inputs the apparent resistivity depends on.
NextRhoA ==
  \/ setActiveStep
  \/ setSoilType
  \/ setRho1
  \/ setRho2
  \/ setLayerDepth
  \/ setMeshLx
  \/ setMeshLy

SpecRhoA == Init /\ [][NextRhoA]_vars

(***************************************************************************)
(* Claims about the App state.                                             *)
(***************************************************************************)

\* C15: after any sequence of toggleRod clicks and edits of the conductor
\* counts nx and ny, every rod {i, j} stored in meshRods satisfies
\* 0 <= i < nx and 0 <= j < ny.
C15_RodsInsideGrid ==
  \A n \in 1..Len(app.meshRods) :
    /\ 0 <= app.meshRods[n].i /\ app.meshRods[n].i < CountOr2(app.meshNx)
    /\ 0 <= app.meshRods[n].j /\ app.meshRods[n].j < CountOr2(app.meshNy)

\* All two-layer data is present.
TwoLayerData ==
  /\ ~IsNaN(parseNumberBR(app.rho1)) /\ ~IsNaN(parseNumberBR(app.rho2))
  /\ ~IsNaN(parseNumberBR(app.layerDepth))

\* C16: after any sequence of edits of rho1, rho2, layer depth, soil type
\* and mesh dimensions, made in any wizard step, the stored apparentRho is
\* the value derived from the current inputs: rho1 for homogeneous soil
\* (where rho1 is a number), calculateApparentResistivity over the current
\* area for two-layer soil, null when two-layer data is missing.
C16_RhoFollowsInputs ==
  /\ (app.soilType = "homogeneous" /\ ~IsNaN(parseNumberBR(app.rho1)))
       => app.apparentRho = parseNumberBR(app.rho1)
  /\ (app.soilType = "2-layer" /\ ~TwoLayerData) => app.apparentRho = Null
  /\ (app.soilType = "2-layer" /\ TwoLayerData)
       => app.apparentRho =
            ApparentResistivityOf(parseNumberBR(app.rho1),
                                  parseNumberBR(app.rho2),
                                  parseNumberBR(app.layerDepth),
                                  calculateEquivalentRadius(getMeshArea(app)))

(***************************************************************************)
(* Claims about the sources of the rods.                                   *)
(***************************************************************************)

\* The number of grid sources pushed before the first rod.
GridSourceCount ==
  args.ny * PointsPerLine(args.lx) + args.nx * PointsPerLine(args.ly)

\* The k-th source of rod n.
RodSource(n, k) == frame.sources[GridSourceCount + 3 * (n - 1) + k]

RightOf(pm, r, c) == IF c < Len(pm[r]) THEN pm[r][c + 1] ELSE pm[r][c]
DownOf(pm, r, c) == IF r < Len(pm) THEN pm[r + 1][c] ELSE pm[r][c]

\* sqrt(dx^2 + dy^2) for the two differences of a cell
DiffNorm(dx, dy) == FSqrt(FAdd(FMul(dx, dx), FMul(dy, dy)))

LongDurationVoltage(factor, cs, rho_s) ==
  FMul(Dec(6, 1000), FAdd(Num(1000), FMul(FMul(factor, cs), rho_s)))

\* C23: for 0 < t <= 3 calculatePermissibleVoltages returns exactly
\* calculateMaxTouchVoltage(t, cs, rho_s, bodyWeight) and
\* calculateMaxStepVoltage(t, cs, rho_s, bodyWeight); for t > 3 it returns
\* vToque = 0.006 * (1000 + 1.5*cs*rho_s) and vPasso = 0.006 * (1000 +
\* 6*cs*rho_s), which depend neither on t nor on bodyWeight.
C23_PermissibleValues ==
  (pc = "done" /\ fn = "calculatePermissibleVoltages") =>
    /\ (FGt(args.t, Zero) /\ FLe(args.t, Num(3))) =>
         /\ ret.vToque = calculateMaxTouchVoltage(args.t, args.cs, args.rho_s,
                                                  args.bodyWeight)
         /\ ret.vPasso = calculateMaxStepVoltage(args.t, args.cs, args.rho_s,
                                                 args.bodyWeight)
    /\ FGt(args.t, Num(3)) =>
         /\ ret.vToque = LongDurationVoltage(Dec(15, 10), args.cs, args.rho_s)
         /\ ret.vPasso = LongDurationVoltage(Num(6), args.cs, args.rho_s)

\* t = 5 s over a 3000 ohm.m layer derated to 0.7: the fixed-current values.
C23_Witness ==
  /\ pc = "done" /\ fn = "calculatePermissibleVoltages"
  /\ args.t = Num(5) /\ args.cs = Dec(7, 10) /\ args.rho_s = Num(3000)
  /\ ret.duration = "longa"
  /\ ret.vToque = LongDurationVoltage(Dec(15, 10), Dec(7, 10), Num(3000))
  /\ FGt(ret.vPasso, ret.vToque)

(***************************************************************************)
(* Claims about the NBR 14039 interpolation.                               *)
(***************************************************************************)

CurveOf(area) ==
  IF area = "interna" THEN nbr14039InternalCurve ELSE nbr14039ExternalCurve

\* t clamped to the table, as calculateNBR14039TouchVoltage passes it on.
ClampedT == FMin(FMax(args.t, Dec(1, 100)), Num(10))

\* C28: for every finite t > 0 interpolateLogLog on the clamped t never
\* returns its default 0; at every tabulated t it yields that point's
\* voltage, and the result lies between the voltages of the two adjacent
\* table points that bracket t (hence within [120, 1000] for 'interna' and
\* [90, 800] for 'externa').
C28_LogLogInterpolation ==
  (pc = "done" /\ fn = "calculateNBR14039TouchVoltage"
     /\ IsFinite(args.t) /\ FGt(args.t, Zero)) =>
    /\ FGt(ret, Zero)
    /\ \A i \in 1..Len(CurveOf(args.area)) :
         ClampedT = CurveOf(args.area)[i].t => ret = CurveOf(args.area)[i].v
    /\ \A i \in 1..(Len(CurveOf(args.area)) - 1) :
         (FGe(ClampedT, CurveOf(args.area)[i].t)
            /\ FLe(ClampedT, CurveOf(args.area)[i + 1].t))
           => /\ FLe(ret, CurveOf(args.area)[i].v)
              /\ FGe(ret, CurveOf(args.area)[i + 1].v)
    /\ FLe(ret, CurveOf(args.area)[1].v)
    /\ FGe(ret, CurveOf(args.area)[Len(CurveOf(args.area))].v)

(***************************************************************************)
(* Claims about the side lengths of calculateSchwarzResistance.            *)
(***************************************************************************)

\* C30: calculateSchwarzResistance is symmetric in the two side lengths: it
\* uses L = max(Lx, Ly), W = min(Lx, Ly) and the ratio L/W >= 1 (1 when
\* W <= 0), so swapping Lx and Ly leaves k1, k2, r1, r2, r12 and resistance
\* unchanged, all other inputs fixed.
C30_SideSymmetry ==
  SchwarzDone =>
    /\ ret = calculateSchwarzResistance(args.rho, args.A, args.Ly, args.Lx,
                                        args.Lc, args.h, args.d_mm, args.rods)
    /\ LwRatio(args.Lx, args.Ly) = LwRatio(args.Ly, args.Lx)
    /\ FGe(LwRatio(args.Lx, args.Ly), One)
    /\ FLe(FMin(args.Lx, args.Ly), Zero) => LwRatio(args.Lx, args.Ly) = One

\* A valid 40 m x 50 m grid with rods: the ratio is 50/40 although Lx < Ly.
C30_Witness ==
  /\ SchwarzDone /\ ValidGrid(args) /\ ValidRods(args.rods)
  /\ args.Lx = Num(40) /\ args.Ly = Num(50)
  /\ LwRatio(args.Lx, args.Ly) = Dec(125, 100)
  /\ FGt(ret.resistance, Zero)
  /\ ret.k1 # Zero

(***************************************************************************)
(* Claims about toggleRod.                                                 *)
(***************************************************************************)

\* The nodes stored in a list of rods.
RodSet(rods) == {rods[n] : n \in 1..Len(rods)}

NoDuplicateRods(rods) == Cardinality(RodSet(rods)) = Len(rods)

\* S with the membership of node flipped.
Flipped(S, node) == IF node \in S THEN S \ {node} ELSE S \cup {node}

\* The nodes that can be clicked in the current state.
ClickableNodes ==
  {[i |-> node[1], j |-> node[2]] :
     node \in CornerNodes(CountOr2(app.meshNx), CountOr2(app.meshNy))}

\* C29: toggleRod keeps meshRods a set: from the empty list, after any
\* sequence of toggleRod(i, j) calls the list has no duplicate {i, j}; a
\* toggle flips the presence of its node (so a node is present exactly when
\* it was toggled an odd number of times) and never adds or removes another
\* node; toggling the same node twice restores the previous set of rods.
C29_RodsAreASet ==
  /\ [](/\ NoDuplicateRods(app.meshRods)
        /\ \A node \in ClickableNodes :
             /\ RodSet(ToggledAny(app.meshRods, node.i, node.j))
                  = Flipped(RodSet(app.meshRods), node)
             /\ NoDuplicateRods(ToggledAny(app.meshRods, node.i, node.j))
             /\ RodSet(ToggledAny(ToggledAny(app.meshRods, node.i, node.j),
                                  node.i, node.j))
                  = RodSet(app.meshRods))
  /\ [][app.meshRods' # app.meshRods =>
          \E node \in ClickableNodes :
            /\ app.meshRods' = ToggledAny(app.meshRods, node.i, node.j)
            /\ RodSet(app.meshRods') = Flipped(RodSet(app.meshRods), node)]_vars

\* Two rods placed, the first one after a change of the conductor counts:
\* node (1, 1) of a 2 x 2 grid, then node (0, 0).
C29_Witness ==
  /\ app.activeStep = 2
  /\ app.meshRods = <<[i |-> 1, j |-> 1], [i |-> 0, j |-> 0]>>

(***************************************************************************)
(* The resistance that steps 6 and 7 use.                                  *)
(***************************************************************************)

\* The panel of wizard step n has just been rendered.
RenderedStep(n) ==
  pc = "done" /\ fn = "renderStepContent" /\ args.activeStep = n

\* C24: the resistance shown by step 6 and by step 7 is Method A's with
\* method 'NBR' and a burial depth of at most 0.25 m, Method B's with 'NBR'
\* and a deeper mesh (0.5 m included), and Schwarz's combined resistance
\* with method 'IEEE'; in every state both steps select the same one.
C24_OneResistanceRule ==
  /\ Step6Resistance(app) = Step7Resistance(app)
  /\ (RenderedStep(6) \/ RenderedStep(7)) =>
       /\ ( /\ app.selectedResistanceMethod = "NBR"
            /\ FLe(parseNumberBR(app.meshDepth), Dec(25, 100)) )
            => ret.verdict.resistance = getPreliminaryResistanceA(app)
       /\ ( /\ app.selectedResistanceMethod = "NBR"
            /\ FGt(parseNumberBR(app.meshDepth), Dec(25, 100)) )
            => ret.verdict.resistance = getPreliminaryResistanceBValue(app)
       /\ app.selectedResistanceMethod = "IEEE"
            => ret.verdict.resistance = ResistanceOf(getIEEE80Resistance(app))

\* The report of a mesh buried at exactly 0.25 m whose two NBR methods give
\* different resistances shows Method A's.
C24_Witness ==
  /\ RenderedStep(7)
  /\ app.selectedResistanceMethod = "NBR"
  /\ app.meshDepth = "0,25"
  /\ ret.verdict.resistance # Null
  /\ getPreliminaryResistanceA(app) # getPreliminaryResistanceBValue(app)

(***************************************************************************)
(* The safety verdict of steps 6 and 7.                                    *)
(***************************************************************************)

\* The mesh current is missing or not positive, or the mesh has no conductor
\* spacing or no conductor length.
InsufficientMeshData(a) ==
  \/ getMeshCurrent(a) = Null
  \/ ~FGt(OrElse(getMeshCurrent(a), Zero), Zero)
  \/ ~FGt(VerdictInputs(a).D, Zero)
  \/ ~FGt(getTotalLength(a), Zero)

\* C27: the verdict isSafe of steps 6 and 7 is true only when the permissible
\* voltages have been computed, and, unless the GPR alone is safe, only when
\* the mesh touch and step voltages are not zeros that stand for a missing or
\* invalid mesh current, conductor spacing or total length.
C27_NoVerdictWithoutData ==
  ((RenderedStep(6) \/ RenderedStep(7)) /\ ret.verdict.isSafe) =>
    /\ app.results.vToque # Null
    /\ app.results.vPasso # Null
    /\ \/ ret.verdict.isGPRSafe
       \/ ~( /\ InsufficientMeshData(app)
             /\ \/ FEq(ret.verdict.vMeshTouch, Zero)
                \/ FEq(ret.verdict.vMeshStep, Zero) )

(***************************************************************************)
(* The minimum conductor section of step 4 and of the step 7 report.       *)
(***************************************************************************)

\* The panel of step 4 or of step 7 has just been rendered.
RenderedSizing == RenderedStep(4) \/ RenderedStep(7)

\* The sizing has no positive fault time, no positive sizing current, or an
\* ambient temperature that is not below tm.
NoSizing(a) ==
  \/ ~FGt(parseNumberBR(a.time), Zero)
  \/ ~HasSizingCurrent(a)
  \/ ~FLt(parseNumberBR(a.ambientTemp), SizingTm(a))

\* C26: step 4 and the step 7 report give the same minimum section in every
\* state: current * calculateKf(..., tm, ta) * sqrt(t) with
\* tm = min(connection.maxTemp, material.tFusion), and 0 when t <= 0, the
\* sizing current is missing or <= 0, or the ambient temperature is not
\* below tm.
C26_SameMinSection ==
  /\ Step4MinSection(app) = Step7MinSection(app)
  /\ (RenderedSizing /\ NoSizing(app)) => ret.minSection = Zero
  /\ (RenderedSizing /\ ~NoSizing(app)) =>
       ret.minSection =
         FMul(FMul(CurrentForSizing(app),
                   calculateKf(MaterialOf(app.selectedMaterialId).alpha20,
                               MaterialOf(app.selectedMaterialId).rho20,
                               MaterialOf(app.selectedMaterialId).tcap,
                               FMin(ConnectionOf(app.selectedConnectionId).maxTemp,
                                    MaterialOf(app.selectedMaterialId).tFusion),
                               parseNumberBR(app.ambientTemp))),
              FSqrt(parseNumberBR(app.time)))

(***************************************************************************)
(* The field functions as pure functions.                                  *)
(***************************************************************************)

\* A call of one of the three field functions has returned.
FieldFunctionCall ==
  /\ pc = "done"
  /\ fn \in {"calculateTouchMatrix", "calculateStepMatrix",
             "calculatePotentialField"}

====
